---- MODULE Spec2Model ----
(***************************************************************************)
(* A model of the resolver's cache core, lib/cache/api.c: the cache        *)
(* lifecycle (open, version check, clear, close, sync), the TTL and rank   *)
(* policy, the write path (cache_stash, stash_rrset) and the read path     *)
(* (cache_peek, closest_NS, try_wild).                                     *)
(*                                                                         *)
(* The backend (an ordered key/value store) is the variable `store`; the   *)
(* cache handle is `cache`; the request being resolved is `ctx_state`,     *)
(* `qry`, `req` and `selected`; the packet handed to cache_peek is `pkt`.  *)
(* `last` records what the last call returned and which backend calls it   *)
(* made.  Timestamps and TTLs are below 2^31, where the conversions        *)
(* between uint32_t and int32_t of the C code are exact.                   *)
(***************************************************************************)
EXTENDS Integers, Sequences, FiniteSets, TLC

VARIABLES store, cache, ctx_state, qry, req, selected, pkt, last

vars == <<store, cache, ctx_state, qry, req, selected, pkt, last>>

(***************************************************************************)
(* Bounds of the model.                                                    *)
(***************************************************************************)
MaxInsert == 2
MaxDelete == 2

(***************************************************************************)
(* Program constants.                                                      *)
(***************************************************************************)
CACHE_VERSION == 3
KR_CACHE_DEFAULT_TTL_MIN == 5
KR_CACHE_DEFAULT_TTL_MAX == 518400

KR_RANK_INITIAL == 0
KR_RANK_BOGUS == 5
KR_RANK_INSECURE == 8
KR_RANK_AUTH == 16
KR_RANK_SECURE == 32

\* errno values; kr_error(x) is -x, kr_ok() is 0
Errno == [ENOENT |-> 2, EIO |-> 5, EEXIST |-> 17, EINVAL |-> 22,
          ENOSPC |-> 28, ENOTSUP |-> 95, ESTALE |-> 116]
kr_error(x) == IF x < 0 THEN x ELSE -x
kr_ok == 0

\* RR types and classes by their wire codes (libknot/descriptor.h)
RRTypeCode == [A |-> 1, NS |-> 2, CNAME |-> 5, SOA |-> 6, DNAME |-> 39,
               OPT |-> 41, DS |-> 43, RRSIG |-> 46, NSEC |-> 47,
               NSEC3 |-> 50, ANY |-> 255]
RRTypes == DOMAIN RRTypeCode
MetaTypes == {"OPT", "ANY"}
knot_rrtype_is_metatype(type) == type \in MetaTypes

\* layer states are bit sets: ctx->state & (FAIL|DONE) is an intersection
KR_STATE_CONSUME == {"CONSUME"}
KR_STATE_PRODUCE == {"PRODUCE"}
KR_STATE_DONE == {"DONE"}
KR_STATE_FAIL == {"FAIL"}
KR_STATE_YIELD == {"YIELD"}

Min(a, b) == IF a < b THEN a ELSE b
Max(a, b) == IF a > b THEN a ELSE b

(***************************************************************************)
(* Names.  A name is the sequence of its labels, leftmost first; a label   *)
(* is a non-empty sequence of bytes; the root is the empty sequence.       *)
(***************************************************************************)
RECURSIVE Wire(_)
Wire(n) == IF n = <<>> THEN <<0>>
           ELSE <<Len(Head(n))>> \o Head(n) \o Wire(Tail(n))

knot_dname_size(n) == Len(Wire(n))
knot_dname_labels(n) == Len(n)

\* strlen of the wire form: the number of bytes before the first zero byte
RECURSIVE Strlen(_)
Strlen(bytes) == IF bytes = <<>> \/ Head(bytes) = 0 THEN 0
                 ELSE 1 + Strlen(Tail(bytes))

\* a check that lets every name pass
check_dname_any(n) == TRUE

check_dname_for_lf(n) == knot_dname_size(n) = Strlen(Wire(n)) + 1

check_rrtype(type) == ~knot_rrtype_is_metatype(type) /\ type # "RRSIG"

\* (void*) memcpy of a uint16_t on the host (little-endian)
Encode16(v) == <<v % 256, v \div 256>>

(***************************************************************************)
(* Rank and TTL policy.                                                    *)
(***************************************************************************)
HasAuth(rank) == (rank \div KR_RANK_AUTH) % 2 = 1

\* lib/resolve.h: AUTH is a bit, the other rank values exclude each other
kr_rank_test(rank, kr_flag) ==
    IF kr_flag = KR_RANK_AUTH THEN HasAuth(rank)
    ELSE (IF HasAuth(rank) THEN rank - KR_RANK_AUTH ELSE rank) = kr_flag

\* The stale-serving callbacks a query may carry: none, one that refuses,
\* one that grants a fixed TTL, one that grants TTL 0.
StaleCbs == {"none", "refuse", "grant30", "grant0"}

stale_cb(cb, res, owner, type) ==
    CASE cb = "grant30" -> 30
      [] cb = "grant0" -> 0
      [] OTHER -> -1

\* a TTL that grows for an entry obtained after the request started
get_new_ttl_signed_diff(entry, q, has_owner, has_qry, owner, type, now) ==
    LET res == entry.ttl - (now - entry.time)
    IN IF res < 0 /\ has_owner /\ has_qry /\ q.stale_cb # "none"
       THEN [ttl |-> IF stale_cb(q.stale_cb, res, owner, type) >= 0
                     THEN stale_cb(q.stale_cb, res, owner, type) ELSE res,
             cb_calls |-> 1]
       ELSE [ttl |-> res, cb_calls |-> 0]

\* a TTL that asks the callback about every entry
get_new_ttl_always_asks(entry, q, has_owner, has_qry, owner, type, now) ==
    LET res == entry.ttl - Max(0, now - entry.time)
    IN IF has_owner /\ has_qry /\ q.stale_cb # "none"
       THEN [ttl |-> IF stale_cb(q.stale_cb, res, owner, type) >= 0
                     THEN stale_cb(q.stale_cb, res, owner, type) ELSE res,
             cb_calls |-> 1]
       ELSE [ttl |-> res, cb_calls |-> 0]

\* The result is the new TTL and the number of calls of the callback.
\* has_owner, has_qry: the owner and qry arguments are not NULL.
get_new_ttl(entry, q, has_owner, has_qry, owner, type, now) ==
    LET diff0 == now - entry.time
        diff == IF diff0 < 0 THEN 0 ELSE diff0
        res == entry.ttl - diff
    IN IF res < 0 /\ has_owner /\ has_qry /\ q.stale_cb # "none"
       THEN LET res_stale == stale_cb(q.stale_cb, res, owner, type)
            IN [ttl |-> IF res_stale >= 0 THEN res_stale ELSE res, cb_calls |-> 1]
       ELSE [ttl |-> res, cb_calls |-> 0]

\* a floor that looks at CD and stub mode before NONAUTH
get_lowest_rank_cd_first(rq, q) ==
    IF rq.cd \/ q.flags.STUB
    THEN [rank |-> KR_RANK_INITIAL + KR_RANK_AUTH, ta_consulted |-> FALSE]
    ELSE IF q.flags.NONAUTH
    THEN [rank |-> KR_RANK_INITIAL, ta_consulted |-> FALSE]
    ELSE IF rq.ta_covers
    THEN [rank |-> KR_RANK_INSECURE + KR_RANK_AUTH, ta_consulted |-> TRUE]
    ELSE [rank |-> KR_RANK_INITIAL + KR_RANK_AUTH, ta_consulted |-> TRUE]

\* The result is the floor and whether the trust-anchor store was consulted.
get_lowest_rank(rq, q) ==
    LET allow_unverified == rq.cd \/ q.flags.STUB
    IN IF q.flags.NONAUTH
       THEN [rank |-> KR_RANK_INITIAL, ta_consulted |-> FALSE]
       ELSE IF ~allow_unverified
       THEN IF rq.ta_covers
            THEN [rank |-> KR_RANK_INSECURE + KR_RANK_AUTH, ta_consulted |-> TRUE]
            ELSE [rank |-> KR_RANK_INITIAL + KR_RANK_AUTH, ta_consulted |-> TRUE]
       ELSE [rank |-> KR_RANK_INITIAL + KR_RANK_AUTH, ta_consulted |-> FALSE]

\* lib/cache/impl.h: the remaining TTL is at most 5 s
is_expiring(orig_ttl, new_ttl) == new_ttl <= 5

(***************************************************************************)
(* Keys.  The lookup format of a name: its labels from the rightmost to    *)
(* the leftmost, each followed by a zero byte; the root has length 0.      *)
(***************************************************************************)
RECURSIVE Lf(_)
Lf(n) == IF n = <<>> THEN <<>> ELSE Lf(Tail(n)) \o Head(n) \o <<0>>

kr_dname_lf(name, add_wildcard) ==
    IF add_wildcard THEN Lf(name) \o <<42, 0>> ELSE Lf(name)

\* every type lumped into NS
KeyTypeNS(type) == "NS"

\* xNAME lumped into NS
KeyType(type) == IF type \in {"CNAME", "DNAME"} THEN "NS" ELSE type

NullKey == <<>>

\* key == dname_lf + '\0' + 'E' + RRTYPE; no key for RRSIG
key_exact_type_maypkt(lf, type) ==
    IF type = "RRSIG" THEN NullKey
    ELSE lf \o <<0, 69>> \o Encode16(RRTypeCode[KeyType(type)])

key_exact_type(lf, type) ==
    IF type \in {"NSEC", "NSEC3"} THEN NullKey
    ELSE key_exact_type_maypkt(lf, type)

\* key_NSEC1: the zone's lookup format, '\0', '1', the rest of the name
key_NSEC1(zlf_len, lf) ==
    SubSeq(lf, 1, zlf_len) \o <<0, 49>> \o SubSeq(lf, zlf_len + 1, Len(lf))

(***************************************************************************)
(* Entries.  The value under an exact key is a list of entries, one per    *)
(* type stored under that key (NS, CNAME and DNAME share the NS key).      *)
(***************************************************************************)
EntryVal(ents) == [kind |-> "entries", ents |-> ents]

entry_h_consistent(eh) ==
    /\ (~kr_rank_test(eh.rank, KR_RANK_BOGUS) \/ eh.is_packet)
    /\ (eh.is_packet \/ ~eh.has_optout)

\* the order of the entries in a list
TypeOrder == <<"NS", "CNAME", "DNAME">>

FirstEntry(val) ==
    IF "NS" \in DOMAIN val.ents THEN val.ents["NS"]
    ELSE IF "CNAME" \in DOMAIN val.ents THEN val.ents["CNAME"]
    ELSE IF "DNAME" \in DOMAIN val.ents THEN val.ents["DNAME"]
    ELSE val.ents[CHOOSE t \in DOMAIN val.ents : TRUE]

\* entry_h_seek: the entry of the type within the list; for NS, CNAME and
\* DNAME -ENOENT when the list has none of that type
entry_h_seek(val, type) ==
    IF val.kind # "entries" THEN [ret |-> kr_error(Errno.EINVAL)]
    ELSE IF type \in {"NS", "CNAME", "DNAME"}
    THEN IF type \in DOMAIN val.ents
         THEN [ret |-> 0, eh |-> val.ents[type]]
         ELSE [ret |-> kr_error(Errno.ENOENT)]
    ELSE [ret |-> 0, eh |-> FirstEntry(val)]

(***************************************************************************)
(* The backend, an ordered key/value store: a function from keys (byte     *)
(* strings) to values.  A value is a raw blob (the version entry, or what  *)
(* another version of the program left) or a list of entries.              *)
(***************************************************************************)
EmptyStore == [k \in {} |-> 0]

cdb_count(st) == Cardinality(DOMAIN st)

\* read: 0 and the value, -ENOENT when the key is absent, -EIO on a failure
cdb_read(st, key, fails) ==
    IF fails THEN [ret |-> kr_error(Errno.EIO), val |-> [kind |-> "none"]]
    ELSE IF key \in DOMAIN st THEN [ret |-> 0, val |-> st[key]]
    ELSE [ret |-> kr_error(Errno.ENOENT), val |-> [kind |-> "none"]]

cdb_write(st, key, val) ==
    [k \in DOMAIN st \cup {key} |-> IF k = key THEN val ELSE st[k]]

RawVal(bytes) == [kind |-> "raw", bytes |-> bytes]

\* val.len of a stored value, as far as the version check reads it
ValLen(val) == IF val.kind = "raw" THEN Len(val.bytes) ELSE 10

VersionKey == <<0, 0, 86, 0>>

(***************************************************************************)
(* The cache handle and the record of the last call.                       *)
(***************************************************************************)
ZeroStats == [hit |-> 0, miss |-> 0, insert |-> 0, delete |-> 0]

ClosedCache == [db |-> FALSE, has_sync |-> FALSE, ttl_min |-> 0, ttl_max |-> 0,
                stats |-> ZeroStats]

\* a test that takes every handle for an open one
cache_nonnull(c) == TRUE

cache_isvalid(c) == c.db

NoInfo == [k \in {} |-> 0]

NoCall == [op |-> "none", ret |-> 0, state |-> {}, reads |-> 0, writes |-> 0,
           clears |-> 0, syncs |-> 0, closes |-> 0, info |-> NoInfo]

\* kr_cache_sync: the backend's sync is called when the cache is valid and
\* the backend has one; the result is the number of backend sync calls
SyncCalls(c) == IF cache_isvalid(c) /\ c.has_sync THEN 1 ELSE 0

kr_cache_sync(c) == IF ~cache_isvalid(c) THEN kr_error(Errno.EINVAL) ELSE kr_ok

(***************************************************************************)
(* The write path.  An RR-set is [null, owner, type, rclass, ttls, rdata,  *)
(* covered, labels, signer]: ttls are the TTLs of its records; covered,    *)
(* labels and signer are read from the first record of an RRSIG set.       *)
(* env.F is the set of steps that fail in the call, env.skip whether the   *)
(* splice keeps an entry that is already stored, env.pkt what stash_pkt    *)
(* stores.                                                                 *)
(***************************************************************************)
NoSigs == [null |-> TRUE]

RECURSIVE MinTtl(_, _)
MinTtl(ttl, ttls) == IF ttls = <<>> THEN ttl
                     ELSE MinTtl(Min(ttl, Head(ttls)), Tail(ttls))

\* uint32_t ttl = -1: above every TTL of the model
UINT32_MAX_TTL == 2147483647

\* preliminary checks that let NSEC3 records through
stash_rrset_precond_nsec3(rr) ==
    IF rr.null \/ rr.rclass # "IN" THEN kr_error(Errno.EINVAL)
    ELSE IF ~check_rrtype(rr.type) THEN kr_ok
    ELSE IF ~check_dname_for_lf(rr.owner) THEN kr_ok
    ELSE 1

stash_rrset_precond(rr) ==
    IF rr.null \/ rr.rclass # "IN" THEN kr_error(Errno.EINVAL)
    ELSE IF ~check_rrtype(rr.type) \/ rr.type = "NSEC3" THEN kr_ok
    ELSE IF ~check_dname_for_lf(rr.owner) THEN kr_ok
    ELSE 1

\* the owner without its first n labels
RECURSIVE StripLabels(_, _)
StripLabels(name, n) == IF n <= 0 \/ name = <<>> THEN name
                        ELSE StripLabels(Tail(name), n - 1)

\* a TTL that leaves the signatures out
StashTtlOfRR(c, rr, rr_sigs) ==
    Max(Min(MinTtl(UINT32_MAX_TTL, rr.ttls), c.ttl_max), c.ttl_min)

\* a TTL that is raised to ttl_min and not lowered to ttl_max
StashTtlNoMax(c, rr, rr_sigs) ==
    LET ttl == MinTtl(MinTtl(UINT32_MAX_TTL, rr.ttls),
                      IF rr_sigs.null THEN <<>> ELSE rr_sigs.ttls)
    IN Max(ttl, c.ttl_min)

\* the TTL stored in the header
StashTtl(c, rr, rr_sigs) ==
    LET ttl == MinTtl(MinTtl(UINT32_MAX_TTL, rr.ttls),
                      IF rr_sigs.null THEN <<>> ELSE rr_sigs.ttls)
    IN Max(Min(ttl, c.ttl_max), c.ttl_min)

\* the existing entry of the type under the key, if any
HasEntry(st, key, type) ==
    /\ key \in DOMAIN st
    /\ st[key].kind = "entries"
    /\ type \in DOMAIN st[key].ents

\* entry_h_splice: -EEXIST when the stored entry is kept, an error when the
\* backend fails, else 0 and room for the new entry
entry_h_splice(st, key, type, env) ==
    IF "splice" \in env.F THEN kr_error(Errno.EIO)
    ELSE IF HasEntry(st, key, type) /\ env.skip THEN kr_error(Errno.EEXIST)
    ELSE 0

\* the list under the key with the entry of the type replaced
SpliceVal(st, key, type, eh) ==
    LET old == IF key \in DOMAIN st /\ st[key].kind = "entries"
               THEN st[key].ents ELSE [t \in {} |-> 0]
    IN EntryVal([t \in DOMAIN old \cup {type} |-> IF t = type THEN eh ELSE old[t]])

EntrySize(rr, rr_sigs) ==
    10 + Len(rr.ttls) + (IF rr_sigs.null THEN 0 ELSE Len(rr_sigs.ttls))

\* a stash that takes NSECs of any rank
NsecOfAnyRank(rr, rank) == FALSE

\* Skip any NSECs that aren't validated.
NsecUnvalidated(rr, rank) == rr.type = "NSEC" /\ ~kr_rank_test(rank, KR_RANK_SECURE)

\* a label count that is never below 0
stash_rrset_wild_labels_coerced(rr, rr_sigs) ==
    IF rr_sigs.null THEN 0 ELSE Max(0, knot_dname_labels(rr.owner) - rr_sigs.labels)

stash_rrset_wild_labels(rr, rr_sigs) ==
    IF rr_sigs.null THEN 0 ELSE knot_dname_labels(rr.owner) - rr_sigs.labels

\* The result: the return value, the store afterwards, the number of
\* entries written, and the key written.
stash_rrset(st, c, rr, rr_sigs, timestamp, rank, env) ==
    LET wild_labels == stash_rrset_wild_labels(rr, rr_sigs)
        nothing == [ret |-> kr_ok, store |-> st, inserted |-> 0, key |-> NullKey]
        failed(e) == [nothing EXCEPT !.ret = kr_error(e)]
        encloser == StripLabels(rr.owner, wild_labels)
        lf == kr_dname_lf(encloser, wild_labels # 0)
        key == IF rr.type = "NSEC"
               THEN key_NSEC1(Len(Lf(rr_sigs.signer)), lf)
               ELSE key_exact_type(lf, rr.type)
        eh0 == [time |-> timestamp, ttl |-> StashTtl(c, rr, rr_sigs), rank |-> rank,
                is_packet |-> FALSE, has_optout |-> FALSE,
                data |-> [rdata |-> rr.rdata,
                          sigs |-> IF rr_sigs.null THEN "none" ELSE rr_sigs.rdata]]
        \* minimize the damage from incomplete write
        eh == IF "demat" \in env.F THEN [eh0 EXCEPT !.ttl = 0, !.rank = 0] ELSE eh0
    IN IF wild_labels < 0 THEN nothing
       ELSE IF NsecUnvalidated(rr, rank) THEN nothing
       ELSE IF rr.type = "NSEC" /\ (rr_sigs.null \/ rr_sigs.ttls = <<>>)
       THEN failed(Errno.EINVAL)
       ELSE IF rr.type # "NSEC" /\ "lf" \in env.F THEN failed(Errno.EINVAL)
       ELSE IF entry_h_splice(st, key, rr.type, env) # 0 THEN nothing
       ELSE [ret |-> EntrySize(rr, rr_sigs),
             store |-> cdb_write(st, key, SpliceVal(st, key, rr.type, eh)),
             inserted |-> 1, key |-> key]

\* the index of the signatures of arr[i] in arr, 0 when there are none
RECURSIVE FindSigs(_, _, _, _)
FindSigs(arr, j, rr, q) ==
    IF j < 1 THEN 0
    ELSE LET e == arr[j]
             ok == /\ e.qry_uid = q.uid /\ ~e.cached
                   /\ ~e.rr.null
                   /\ e.rr.type = "RRSIG"
                   /\ e.rr.covered = rr.type
                   /\ rr.owner = e.rr.owner
         IN IF ok THEN j ELSE FindSigs(arr, j - 1, rr, q)

\* an entry is stashed whether it is marked cached or not
stash_rrarray_entry_again(S, psec, i, q, c, env) ==
    LET arr == S.sel[psec]
        entry == arr[i]
        rr == entry.rr
        pre == stash_rrset_precond(rr)
        j == FindSigs(arr, Len(arr), rr, q)
        rr_sigs == IF j = 0 THEN NoSigs ELSE arr[j].rr
        w == stash_rrset(S.store, c, rr, rr_sigs, q.timestamp, entry.rank, env)
        marked == [k \in 1..Len(arr) |->
                     IF k = i \/ k = j THEN [arr[k] EXCEPT !.cached = TRUE] ELSE arr[k]]
    IN IF pre <= 0 THEN [ret |-> pre, S |-> [S EXCEPT !.tried = @ + 1]]
       ELSE IF w.ret < 0 THEN [ret |-> w.ret, S |-> [S EXCEPT !.tried = @ + 1]]
       ELSE [ret |-> kr_ok,
             S |-> [S EXCEPT !.tried = @ + 1,
                             !.store = w.store,
                             !.inserted = @ + w.inserted,
                             !.keys = IF w.inserted > 0 THEN @ \cup {w.key} ELSE @,
                             !.sel = IF w.ret > 0
                                     THEN [S.sel EXCEPT ![psec] = marked]
                                     ELSE S.sel]]

\* S is the progress of one cache_stash: the store, the selected arrays,
\* the entries written so far, the keys written, the entries tried.
stash_rrarray_entry(S, psec, i, q, c, env) ==
    LET arr == S.sel[psec]
        entry == arr[i]
        rr == entry.rr
        pre == stash_rrset_precond(rr)
        j == FindSigs(arr, Len(arr), rr, q)
        rr_sigs == IF j = 0 THEN NoSigs ELSE arr[j].rr
        w == stash_rrset(S.store, c, rr, rr_sigs, q.timestamp, entry.rank, env)
        marked == [k \in 1..Len(arr) |->
                     IF k = i \/ k = j THEN [arr[k] EXCEPT !.cached = TRUE] ELSE arr[k]]
    IN IF entry.cached THEN [ret |-> kr_ok, S |-> S]
       ELSE IF pre <= 0 THEN [ret |-> pre, S |-> [S EXCEPT !.tried = @ + 1]]
       ELSE IF w.ret < 0 THEN [ret |-> w.ret, S |-> [S EXCEPT !.tried = @ + 1]]
       ELSE [ret |-> kr_ok,
             S |-> [S EXCEPT !.tried = @ + 1,
                             !.store = w.store,
                             !.inserted = @ + w.inserted,
                             !.keys = IF w.inserted > 0 THEN @ \cup {w.key} ELSE @,
                             !.sel = IF w.ret > 0
                                     THEN [S.sel EXCEPT ![psec] = marked]
                                     ELSE S.sel]]

\* the sections of the selected arrays (sequences count from 1)
KNOT_ANSWER == 1
KNOT_ADDITIONAL == 3

\* a loop that notes the error of a record and goes on to the next
RECURSIVE StashLoopGoesOn(_, _, _, _, _, _)
StashLoopGoesOn(psec, i, S, q, c, env) ==
    IF i < 1
    THEN IF psec = KNOT_ADDITIONAL THEN S
         ELSE StashLoopGoesOn(psec + 1, Len(S.sel[psec + 1]), S, q, c, env)
    ELSE IF S.sel[psec][i].qry_uid # q.uid
    THEN StashLoopGoesOn(psec, i - 1, S, q, c, env)
    ELSE LET r == stash_rrarray_entry(S, psec, i, q, c, env)
         IN StashLoopGoesOn(psec, i - 1,
                            IF r.ret # 0 THEN [r.S EXCEPT !.ret = r.ret]
                            ELSE [r.S EXCEPT !.ret = S.ret],
                            q, c, env)

RECURSIVE StashLoop(_, _, _, _, _, _)
StashLoop(psec, i, S, q, c, env) ==
    IF i < 1
    THEN IF psec = KNOT_ADDITIONAL THEN S
         ELSE StashLoop(psec + 1, Len(S.sel[psec + 1]), S, q, c, env)
    ELSE IF S.sel[psec][i].qry_uid # q.uid
    THEN StashLoop(psec, i - 1, S, q, c, env)
    ELSE LET r == stash_rrarray_entry(S, psec, i, q, c, env)
         IN IF r.ret # 0 THEN [r.S EXCEPT !.ret = r.ret]
            ELSE StashLoop(psec, i - 1, r.S, q, c, env)

\* stash_pkt: stores the packet under the query name and type, or nothing
stash_pkt(st, q, qtype, env) ==
    IF env.pkt.null \/ ~check_dname_for_lf(q.sname) \/ ~check_rrtype(qtype)
    THEN st
    ELSE LET key == key_exact_type_maypkt(kr_dname_lf(q.sname, FALSE), qtype)
             eh == [time |-> q.timestamp, ttl |-> env.pkt.ttl, rank |-> env.pkt.rank,
                    is_packet |-> TRUE, has_optout |-> env.pkt.has_optout,
                    data |-> [rdata |-> "pkt", sigs |-> "none"]]
         IN cdb_write(st, key, SpliceVal(st, key, qtype, eh))

\* a layer that fails the request when a record could not be stashed
cache_stash_fails(state, ret) == IF ret # 0 THEN KR_STATE_FAIL ELSE state

\* what cache_stash returns
cache_stash_ret(state, ret) == state

\* a cache_stash that returns from a failed record without the sync
cache_stash_error_unsynced(state, has_qry, q, c, st, sel, qtype, tc, env) ==
    LET S0 == [store |-> st, sel |-> sel, inserted |-> 0, keys |-> {},
               tried |-> 0, ret |-> 0]
        skipped == [state |-> state, S |-> S0, syncs |-> 0, skipped |-> TRUE,
                    pkt_stashed |-> FALSE]
    IN IF ~has_qry \/ q.flags.CACHED \/ ~check_rrtype(qtype) \/ q.sclass # "IN"
       THEN skipped
       ELSE IF tc THEN skipped
       ELSE LET S1 == StashLoop(KNOT_ANSWER, Len(sel[KNOT_ANSWER]), S0, q, c, env)
            IN IF S1.ret = 0
               THEN [state |-> cache_stash_ret(state, S1.ret),
                     S |-> [S1 EXCEPT !.store = stash_pkt(S1.store, q, qtype, env)],
                     syncs |-> SyncCalls(c), skipped |-> FALSE, pkt_stashed |-> TRUE]
               ELSE [state |-> cache_stash_ret(state, S1.ret), S |-> S1,
                     syncs |-> 0, skipped |-> FALSE, pkt_stashed |-> FALSE]

\* cache_stash: has_qry is req->current_query != NULL, qtype the packet's
\* question type, tc its TC bit
cache_stash(state, has_qry, q, c, st, sel, qtype, tc, env) ==
    LET S0 == [store |-> st, sel |-> sel, inserted |-> 0, keys |-> {},
               tried |-> 0, ret |-> 0]
        skipped == [state |-> state, S |-> S0, syncs |-> 0, skipped |-> TRUE,
                    pkt_stashed |-> FALSE]
    IN IF ~has_qry \/ q.flags.CACHED \/ ~check_rrtype(qtype) \/ q.sclass # "IN"
       THEN skipped
       ELSE IF tc THEN skipped
       ELSE LET S1 == StashLoop(KNOT_ANSWER, Len(sel[KNOT_ANSWER]), S0, q, c, env)
                S2 == IF S1.ret = 0
                      THEN [S1 EXCEPT !.store = stash_pkt(S1.store, q, qtype, env)]
                      ELSE S1
            IN [state |-> cache_stash_ret(state, S1.ret), S |-> S2,
                syncs |-> SyncCalls(c), skipped |-> FALSE,
                pkt_stashed |-> S1.ret = 0]

(***************************************************************************)
(* The read path.  The packet is [orig, qname, qtype, rcode, answer,       *)
(* authority]; orig holds as long as nothing has written to it.  An        *)
(* RR-set in a packet or in an answer is [owner, type, ttl, rank, rdata,   *)
(* sigs, src]: rank and rdata are those of the entry it was made from.     *)
(* env.F is the set of steps that fail in the call; env.nsec is what the   *)
(* NSEC assembler finds; env.uninit stands for a value read before it was  *)
(* set.                                                                    *)
(***************************************************************************)
PktOrig == [orig |-> TRUE, qname |-> <<>>, qtype |-> "none", rcode |-> "none",
            answer |-> <<>>, authority |-> <<>>]

pkt_renew(p, name, type) ==
    [orig |-> FALSE, qname |-> name, qtype |-> type, rcode |-> "NOERROR",
     answer |-> <<>>, authority |-> <<>>]

Materialized(eh, owner, type, new_ttl, src) ==
    [owner |-> owner, type |-> type, ttl |-> new_ttl, rank |-> eh.rank,
     rdata |-> eh.data.rdata, sigs |-> eh.data.sigs, src |-> src,
     expiring |-> is_expiring(eh.ttl, new_ttl)]

\* the flags answer_simple_hit sets
\* finishing touches that leave DNSSEC_WANT as it is
SimpleHitFlagsWantKept(f, eh, new_ttl) ==
    [f EXCEPT !.EXPIRING = is_expiring(eh.ttl, new_ttl),
              !.CACHED = TRUE,
              !.NO_MINIMIZE = TRUE,
              !.DNSSEC_INSECURE = kr_rank_test(eh.rank, KR_RANK_INSECURE)]

SimpleHitFlags(f, eh, new_ttl) ==
    LET insecure == kr_rank_test(eh.rank, KR_RANK_INSECURE)
    IN [f EXCEPT !.EXPIRING = is_expiring(eh.ttl, new_ttl),
                 !.CACHED = TRUE,
                 !.NO_MINIMIZE = TRUE,
                 !.DNSSEC_INSECURE = insecure,
                 !.DNSSEC_WANT = IF insecure THEN FALSE ELSE @]

\* The result: the return value, the query and the packet afterwards.
answer_simple_hit(q, p, type, eh, new_ttl, env) ==
    LET p1 == pkt_renew(p, q.sname, q.stype)
        rr == Materialized(eh, q.sname, type, new_ttl, "simple")
    IN IF "renew" \in env.F THEN [ret |-> kr_error(Errno.ENOSPC), qry |-> q, pkt |-> p]
       ELSE IF "e2a" \in env.F THEN [ret |-> kr_error(Errno.EINVAL), qry |-> q, pkt |-> p1]
       ELSE IF "append" \in env.F THEN [ret |-> kr_error(Errno.ENOSPC), qry |-> q, pkt |-> p1]
       ELSE [ret |-> kr_ok,
             qry |-> [q EXCEPT !.flags = SimpleHitFlags(q.flags, eh, new_ttl)],
             pkt |-> [p1 EXCEPT !.answer = <<rr>>]]

\* answer_from_pkt: the stored wire replaces the packet
answer_from_pkt(q, p, type, eh, new_ttl, env) ==
    IF "from_pkt" \in env.F THEN [ret |-> kr_error(Errno.ENOENT), qry |-> q, pkt |-> p]
    ELSE [ret |-> kr_ok,
          qry |-> [q EXCEPT !.flags.EXPIRING = is_expiring(eh.ttl, new_ttl),
                            !.flags.CACHED = TRUE,
                            !.flags.NO_MINIMIZE = TRUE],
          pkt |-> [pkt_renew(p, q.sname, q.stype) EXCEPT
                       !.rcode = "stored",
                       !.answer = <<Materialized(eh, q.sname, type, new_ttl, "packet")>>]]

\* a test of the TTL alone
ExactUnfitByTtl(new_ttl, eh, lowest_rank) == new_ttl < 0

\* whether found_exact_hit refuses the entry
ExactUnfit(new_ttl, eh, lowest_rank) == new_ttl < 0 \/ eh.rank < lowest_rank

\* The result: the return value, the query and the packet afterwards, and
\* the calls of the stale callback.
found_exact_hit(q, p, val, lowest_rank, env) ==
    LET sk == IF "seek" \in env.F THEN [ret |-> kr_error(Errno.EINVAL)]
              ELSE entry_h_seek(val, q.stype)
        eh == sk.eh
        t == get_new_ttl(eh, q, TRUE, TRUE, q.sname, q.stype, q.timestamp)
        none(r, cbs) == [ret |-> r, qry |-> q, pkt |-> p, cb_calls |-> cbs]
    IN IF sk.ret # 0 THEN none(sk.ret, 0)
       ELSE IF ~entry_h_consistent(eh) THEN none(kr_error(Errno.ENOENT), 0)
       ELSE IF ExactUnfit(t.ttl, eh, lowest_rank)
       THEN none(kr_error(Errno.ENOENT), t.cb_calls)
       ELSE LET a == IF eh.is_packet
                     THEN answer_from_pkt(q, p, q.stype, eh, t.ttl, env)
                     ELSE answer_simple_hit(q, p, q.stype, eh, t.ttl, env)
            IN [ret |-> a.ret, qry |-> a.qry, pkt |-> a.pkt, cb_calls |-> t.cb_calls]

(***************************************************************************)
(* closest_NS                                                              *)
(***************************************************************************)
rank_min == KR_RANK_INSECURE + KR_RANK_AUTH

\* the same with the NS taken up at the query name for DS as well
NSConsidersNsForDs(val, type, exact_match, stype) ==
    CASE type = "NS" -> "NS" \in DOMAIN val.ents
      [] type = "CNAME" -> "CNAME" \in DOMAIN val.ents /\ exact_match
      [] OTHER -> "DNAME" \in DOMAIN val.ents /\ ~exact_match

\* the same with the CNAME left out when the type asked for is DS
NSConsidersButDs(val, type, exact_match, stype) ==
    CASE type = "NS" -> "NS" \in DOMAIN val.ents /\ ~(exact_match /\ stype = "DS")
      [] type = "CNAME" -> "CNAME" \in DOMAIN val.ents /\ exact_match /\ stype # "DS"
      [] OTHER -> "DNAME" \in DOMAIN val.ents /\ ~exact_match

\* whether the while loop of closest_NS takes up the type at this name
NSConsiders(val, type, exact_match, stype) ==
    CASE type = "NS" -> "NS" \in DOMAIN val.ents /\ ~(exact_match /\ stype = "DS")
      [] type = "CNAME" -> "CNAME" \in DOMAIN val.ents /\ exact_match
      [] OTHER -> "DNAME" \in DOMAIN val.ents /\ ~exact_match

\* whether closest_NS refuses the entry found for the type
NSUnfit(new_ttl, eh, type) ==
    new_ttl < 0 \/ eh.is_packet \/ (type # "NS" /\ eh.rank < rank_min)

\* the types at one name, from the ti-th on
RECURSIVE NSTypes(_, _, _, _, _, _, _)
NSTypes(ti, val, q, zname, exact_match, env, cbs) ==
    IF ti > Len(TypeOrder) THEN [found |-> FALSE, cb_calls |-> cbs]
    ELSE LET type == TypeOrder[ti]
             sk == IF "seek" \in env.F THEN [ret |-> kr_error(Errno.EINVAL)]
                   ELSE entry_h_seek(val, type)
             t == get_new_ttl(sk.eh, q, TRUE, TRUE, zname, type, q.timestamp)
         IN IF ~NSConsiders(val, type, exact_match, q.stype)
            THEN NSTypes(ti + 1, val, q, zname, exact_match, env, cbs)
            ELSE IF sk.ret # 0 \/ ~entry_h_consistent(sk.eh)
            THEN [found |-> FALSE, cb_calls |-> cbs]
            ELSE IF NSUnfit(t.ttl, sk.eh, type)
            THEN NSTypes(ti + 1, val, q, zname, exact_match, env, cbs + t.cb_calls)
            ELSE [found |-> TRUE, eh |-> sk.eh, type |-> type, new_ttl |-> t.ttl,
                  cb_calls |-> cbs + t.cb_calls]

\* The result: whether a value was found, its entry and type (k->type),
\* k->zlf_len and k->zname, the reads made and the calls of the callback.
RECURSIVE closest_NS_loop(_, _, _, _, _, _, _, _)
closest_NS_loop(q, st, buf, zname, zlf_len, exact_match, env, acc) ==
    LET key == key_exact_type(SubSeq(buf, 1, zlf_len), "NS")
        rd == cdb_read(st, key, "ns_read" \in env.F)
        acc1 == [acc EXCEPT !.reads = @ + 1]
        r == NSTypes(1, rd.val, q, zname, exact_match, env, acc1.cb_calls)
        next_label(a) ==
            IF zname = <<>>
            THEN [found |-> FALSE, type |-> "NS", zlf_len |-> zlf_len,
                  zname |-> zname, reads |-> a.reads, cb_calls |-> a.cb_calls]
            ELSE closest_NS_loop(q, st, buf, Tail(zname),
                                 zlf_len - (Len(Head(zname)) + 1), FALSE, env, a)
    IN IF rd.ret = kr_error(Errno.ENOENT) THEN next_label(acc1)
       ELSE IF rd.ret # 0
       THEN [found |-> FALSE, type |-> "NS", zlf_len |-> Min(env.uninit, Len(buf)),
             zname |-> zname, reads |-> acc1.reads, cb_calls |-> acc1.cb_calls]
       ELSE IF rd.val.kind # "entries" \/ ~entry_h_consistent(FirstEntry(rd.val))
       THEN next_label(acc1)
       ELSE IF r.found
       THEN [found |-> TRUE, eh |-> r.eh, type |-> r.type, zlf_len |-> zlf_len,
             zname |-> zname, reads |-> acc1.reads, cb_calls |-> r.cb_calls]
       ELSE next_label([acc1 EXCEPT !.cb_calls = r.cb_calls])

\* a closest_NS that has read the key of the query name once before
closest_NS_reread(q, st, buf, env, acc) ==
    closest_NS_loop(q, st, buf, q.sname, Len(buf), TRUE, env,
                    [acc EXCEPT !.reads = @ + 1])

closest_NS(q, st, buf, env, acc) ==
    closest_NS_loop(q, st, buf, q.sname, Len(buf), TRUE, env, acc)

(***************************************************************************)
(* try_wild.  The answer being collected is [rcode, answer, nsec, soa].    *)
(***************************************************************************)
\* a test of the wildcard entry that lets packets pass
WildUnfitRR(new_ttl, eh, lowest_rank) == new_ttl < 0 \/ eh.rank < lowest_rank

\* whether try_wild refuses the entry
WildUnfit(new_ttl, eh, lowest_rank) ==
    new_ttl < 0 \/ eh.rank < lowest_rank \/ eh.is_packet

\* The result: the return value and the answer afterwards.
try_wild(st, buf, ans, type, lowest_rank, q, env) ==
    LET key == key_exact_type(buf, type)
        rd == IF key = NullKey THEN [ret |-> kr_error(Errno.EINVAL)]
              ELSE cdb_read(st, key, "wild_read" \in env.F)
        sk == IF rd.ret # 0 THEN [ret |-> rd.ret]
              ELSE IF "seek" \in env.F THEN [ret |-> kr_error(Errno.EINVAL)]
              ELSE entry_h_seek(rd.val, type)
        t == get_new_ttl(sk.eh, q, TRUE, TRUE, q.sname, type, q.timestamp)
        none(r, cbs) == [ret |-> r, ans |-> ans, cb_calls |-> cbs]
    IN IF sk.ret # 0 THEN none(sk.ret, 0)
       ELSE IF ~entry_h_consistent(sk.eh) THEN none(kr_error(sk.ret), 0)
       ELSE IF WildUnfit(t.ttl, sk.eh, lowest_rank)
       THEN none(kr_error(Errno.ESTALE), t.cb_calls)
       ELSE IF "e2a" \in env.F THEN none(kr_error(Errno.EINVAL), t.cb_calls)
       ELSE [ret |-> kr_ok,
             ans |-> [ans EXCEPT !.rcode = "PKT_NOERROR",
                         !.answer = <<Materialized(sk.eh, q.sname, type, t.ttl, "wild")>>],
             cb_calls |-> t.cb_calls]

\* one turn of the loop over { qry->stype, CNAME }: w is what try_wild
\* returned for the i-th type
RECURSIVE WildLoop(_, _, _, _, _, _, _, _, _)
WildTurn(i, types, st, buf, ans, lowest_rank, q, env, acc, w) ==
    IF w.ret = kr_ok
    THEN [ret |-> kr_ok, ans |-> w.ans, reads |-> acc.reads + 1,
          cb_calls |-> acc.cb_calls + w.cb_calls, asserted |-> FALSE]
    ELSE IF w.ret # kr_error(Errno.ENOENT) /\ w.ret # kr_error(Errno.ESTALE)
    THEN [ret |-> w.ret, ans |-> ans, reads |-> acc.reads + 1,
          cb_calls |-> acc.cb_calls + w.cb_calls, asserted |-> TRUE]
    ELSE WildLoop(i + 1, types, st, buf, ans, lowest_rank, q, env,
                  [ret |-> w.ret, reads |-> acc.reads + 1,
                   cb_calls |-> acc.cb_calls + w.cb_calls])

\* the loop from the i-th type on; acc.ret is the result of the last attempt
WildLoop(i, types, st, buf, ans, lowest_rank, q, env, acc) ==
    IF i > Len(types)
    THEN [ret |-> acc.ret, ans |-> ans, reads |-> acc.reads,
          cb_calls |-> acc.cb_calls, asserted |-> FALSE]
    ELSE WildTurn(i, types, st, buf, ans, lowest_rank, q, env, acc,
                  try_wild(st, buf, ans, types[i], lowest_rank, q, env))

(***************************************************************************)
(* The NSEC assembler (nsec1_encloser, nsec1_src_synth), by its contract:  *)
(* from the fresh NSEC entries stored for the zone it proves that the      *)
(* name has no data of the type (NODATA) or does not exist (NXDOMAIN),     *)
(* or finds nothing.  Which of these it finds is env.nsec.                 *)
(***************************************************************************)
IsPrefix(a, b) == Len(a) <= Len(b) /\ SubSeq(b, 1, Len(a)) = a

NsecEntries(st, zlf, q) ==
    LET ks == {k \in DOMAIN st : /\ IsPrefix(zlf \o <<0, 49>>, k)
                                 /\ st[k].kind = "entries"
                                 /\ "NSEC" \in DOMAIN st[k].ents}
    IN {e \in {st[k].ents["NSEC"] : k \in ks} :
          /\ entry_h_consistent(e)
          /\ get_new_ttl(e, q, FALSE, TRUE, <<>>, "NSEC", q.timestamp).ttl >= 0}

LowestRanked(es) == CHOOSE e \in es : \A f \in es : e.rank <= f.rank

EmptyAnswer == [rcode |-> "none", answer |-> <<>>, nsec |-> <<>>, soa |-> <<>>]

\* The result: the return value, the answer and the labels of the closest
\* encloser.
nsec1_encloser(st, zlf, zone_labels, q, env) ==
    LET es == NsecEntries(st, zlf, q)
        sname_labels == knot_dname_labels(q.sname)
        e == LowestRanked(es)
        t == get_new_ttl(e, q, FALSE, TRUE, <<>>, "NSEC", q.timestamp).ttl
        found == /\ es # {}
                 /\ env.nsec.rcode \in {"PKT_NODATA", "PKT_NXDOMAIN"}
                 /\ (env.nsec.rcode = "PKT_NXDOMAIN" => sname_labels > zone_labels)
    IN IF "encloser" \in env.F
       THEN [ret |-> kr_error(Errno.EIO), ans |-> EmptyAnswer, clencl_labels |-> -1]
       ELSE IF ~found
       THEN [ret |-> 0, ans |-> EmptyAnswer, clencl_labels |-> -1]
       ELSE [ret |-> 0,
             ans |-> [EmptyAnswer EXCEPT !.rcode = env.nsec.rcode,
                         !.nsec = <<Materialized(e, q.sname, "NSEC", t, "nsec")>>],
             clencl_labels |-> IF env.nsec.rcode = "PKT_NXDOMAIN"
                               THEN Max(zone_labels, Min(sname_labels - 1, env.nsec.clencl))
                               ELSE sname_labels]

\* lib/cache/impl.h: the slot of the SOA in an answer
AR_SOA == 1

\* The result: the return value (AR_SOA, 0 or an error) and the answer.
nsec1_src_synth(ans, env) ==
    IF "synth" \in env.F THEN [ret |-> kr_error(Errno.EIO), ans |-> ans]
    ELSE IF env.nsec.synth = "covered" THEN [ret |-> AR_SOA, ans |-> ans]
    ELSE IF env.nsec.synth = "nodata"
    THEN [ret |-> AR_SOA, ans |-> [ans EXCEPT !.rcode = "PKT_NODATA"]]
    ELSE [ret |-> 0, ans |-> ans]

(***************************************************************************)
(* cache_peek_real, step by step: each operator takes what the step       *)
(* before it returned.  The result: the state returned, the query and the  *)
(* packet afterwards, the backend reads and syncs made, the calls of the   *)
(* stale callback, the rank floor, and where the call ended (path).        *)
(***************************************************************************)
\* a layer that fails the request where cache_peek_real returns ctx->state
ReturnFail(state) == KR_STATE_FAIL

\* return ctx->state
ReturnState(state) == state

\* B is the call so far; it ends here with the caller's state
PeekEnds(B, path) == [B EXCEPT !.state = ReturnState(B.state), !.path = path]

\* a test of the SOA's TTL alone
SoaUnfitByTtl(new_ttl, eh, lowest_rank) == new_ttl < 0

\* whether the SOA entry is refused
SoaUnfit(new_ttl, eh, lowest_rank) ==
    new_ttl < 0 \/ eh.rank < lowest_rank \/ eh.is_packet

\* the packet is renewed and the RR-sets of the answer are appended
PeekWrite(B, ans, env) ==
    LET q == B.qry
        rrsets == ans.answer \o ans.nsec \o ans.soa
        real_rcode == IF ans.rcode = "PKT_NXDOMAIN" THEN "NXDOMAIN" ELSE "NOERROR"
        p1 == pkt_renew(B.pkt, q.sname, q.stype)
        p2 == [p1 EXCEPT !.rcode = real_rcode]
    IN IF "renew" \in env.F THEN PeekEnds(B, "write_error")
       ELSE IF "begin" \in env.F THEN PeekEnds([B EXCEPT !.pkt = p1], "write_error")
       ELSE IF "append" \in env.F THEN PeekEnds([B EXCEPT !.pkt = p2], "write_error")
       ELSE [B EXCEPT !.state = KR_STATE_DONE,
                      !.path = "synthesized",
                      !.pkt = [p2 EXCEPT !.answer = ans.answer,
                                         !.authority = ans.nsec \o ans.soa],
                      !.qry = [q EXCEPT !.flags.EXPIRING =
                                            \E i \in 1..Len(rrsets) : rrsets[i].expiring,
                                        !.flags.CACHED = TRUE,
                                        !.flags.NO_MINIMIZE = TRUE]]

\* the SOA entry eh has been read; t is its new TTL
PeekSoaFound(B, ans, zname, lowest_rank, env, eh, t) ==
    IF ~entry_h_consistent(eh) THEN PeekEnds(B, "soa_missed")
    ELSE IF SoaUnfit(t.ttl, eh, lowest_rank)
    THEN PeekEnds([B EXCEPT !.cb_calls = @ + t.cb_calls], "soa_unfit")
    ELSE IF "e2a_soa" \in env.F
    THEN PeekEnds([B EXCEPT !.cb_calls = @ + t.cb_calls], "soa_error")
    ELSE PeekWrite([B EXCEPT !.cb_calls = @ + t.cb_calls],
                   [ans EXCEPT !.soa = <<Materialized(eh, zname, "SOA", t.ttl, "soa")>>],
                   env)

\* rd is what the read of the SOA key returned
PeekSoaRead(B, ans, zname, lowest_rank, env, rd) ==
    IF rd.ret # 0 \/ rd.val.kind # "entries" THEN PeekEnds(B, "soa_missed")
    ELSE PeekSoaFound(B, ans, zname, lowest_rank, env, FirstEntry(rd.val),
                      get_new_ttl(FirstEntry(rd.val), B.qry, TRUE, TRUE, zname, "SOA",
                                  B.qry.timestamp))

\* 4. add SOA iff needed, then write the packet
PeekSoa(B, ans, st, zlf, zname, lowest_rank, env) ==
    IF ans.rcode = "PKT_NOERROR" THEN PeekWrite(B, ans, env)
    ELSE PeekSoaRead([B EXCEPT !.reads = @ + 1], ans, zname, lowest_rank, env,
                     cdb_read(st, key_exact_type(zlf, "SOA"), "soa_read" \in env.F))

\* 3b. w is what the loop over the wildcard types returned
PeekWild(B, st, zlf, zname, lowest_rank, env, w) ==
    IF w.asserted
    THEN PeekEnds([B EXCEPT !.reads = w.reads, !.cb_calls = w.cb_calls], "wild_error")
    ELSE IF w.ret # 0
    THEN PeekEnds([B EXCEPT !.reads = w.reads, !.cb_calls = w.cb_calls], "wild_miss")
    ELSE PeekSoa([B EXCEPT !.reads = w.reads, !.cb_calls = w.cb_calls], w.ans, st,
                 zlf, zname, lowest_rank, env)

\* 3a. syn is what nsec1_src_synth returned
PeekSynth(B, st, zlf, zname, clencl_name, lowest_rank, env, syn) ==
    IF syn.ret < 0 THEN PeekEnds(B, "synth_error")
    ELSE IF syn.ret = AR_SOA THEN PeekSoa(B, syn.ans, st, zlf, zname, lowest_rank, env)
    ELSE IF "lf_wild" \in env.F THEN PeekEnds(B, "lf_error")
    ELSE PeekWild(B, st, zlf, zname, lowest_rank, env,
                  WildLoop(1, IF B.qry.stype = "CNAME" THEN <<B.qry.stype>>
                              ELSE <<B.qry.stype, "CNAME">>,
                           st, kr_dname_lf(clencl_name, TRUE), syn.ans, lowest_rank,
                           B.qry, env,
                           [ret |-> 0, reads |-> B.reads, cb_calls |-> B.cb_calls]))

\* 2. enc is what nsec1_encloser returned
PeekEncloser(B, st, zlf, zname, lowest_rank, env, enc) ==
    IF enc.ret < 0 THEN PeekEnds(B, "encloser_error")
    ELSE IF enc.ans.rcode \notin {"PKT_NODATA", "PKT_NXDOMAIN"} THEN PeekEnds(B, "miss")
    ELSE IF enc.ans.rcode # "PKT_NXDOMAIN"
    THEN PeekSoa(B, enc.ans, st, zlf, zname, lowest_rank, env)
    ELSE PeekSynth(B, st, zlf, zname,
                   StripLabels(B.qry.sname,
                               knot_dname_labels(B.qry.sname) - enc.clencl_labels),
                   lowest_rank, env, nsec1_src_synth(enc.ans, env))

\* the zone has been found: its name, and its lookup format zlf
PeekZone(B, st, zlf, zname, lowest_rank, env) ==
    PeekEncloser(B, st, zlf, zname, lowest_rank, env,
                 nsec1_encloser(st, zlf, knot_dname_labels(zname), B.qry, env))

\* the CNAME found by closest_NS is answered; a is what answer_simple_hit
\* returned
PeekCname(B, a) ==
    IF a.ret = kr_ok
    THEN [B EXCEPT !.state = KR_STATE_DONE, !.qry = a.qry, !.pkt = a.pkt, !.path = "cname"]
    ELSE PeekEnds([B EXCEPT !.pkt = a.pkt], "cname_error")

\* the TTL of the CNAME is computed once more
PeekCnameTtl(B, eh, env, t) ==
    PeekCname([B EXCEPT !.cb_calls = @ + t.cb_calls],
              answer_simple_hit(B.qry, B.pkt, "CNAME", eh, t.ttl, env))

\* a step 1b that takes every result of closest_NS for a zone
PeekCutToZone(B, st, lowest_rank, env, cut) ==
    PeekZone([B EXCEPT !.reads = cut.reads, !.cb_calls = cut.cb_calls], st,
             SubSeq(kr_dname_lf(B.qry.sname, FALSE), 1, cut.zlf_len), cut.zname,
             lowest_rank, env)

\* 1b. cut is what closest_NS returned
PeekCut(B, st, lowest_rank, env, cut) ==
    IF cut.type = "CNAME"
    THEN PeekCnameTtl([B EXCEPT !.reads = cut.reads, !.cb_calls = cut.cb_calls], cut.eh, env,
                      get_new_ttl(cut.eh, B.qry, TRUE, TRUE, B.qry.sname, "CNAME",
                                  B.qry.timestamp))
    ELSE IF cut.type = "DNAME"
    THEN PeekEnds([B EXCEPT !.reads = cut.reads, !.cb_calls = cut.cb_calls], "dname")
    ELSE PeekZone([B EXCEPT !.reads = cut.reads, !.cb_calls = cut.cb_calls], st,
                  SubSeq(kr_dname_lf(B.qry.sname, FALSE), 1, cut.zlf_len), cut.zname,
                  lowest_rank, env)

\* 1a. h is what the read of the exact key or else found_exact_hit came to:
\* the return value, the query, the packet and the callback calls afterwards
PeekExact(B, st, lowest_rank, env, h) ==
    IF h.ret # 0 /\ h.ret # kr_error(Errno.ENOENT)
    THEN PeekEnds([B EXCEPT !.pkt = h.pkt, !.cb_calls = h.cb_calls], "exact_error")
    ELSE IF h.ret = 0
    THEN [B EXCEPT !.state = KR_STATE_DONE, !.qry = h.qry, !.pkt = h.pkt,
                   !.cb_calls = h.cb_calls, !.path = "exact_hit"]
    ELSE PeekCut([B EXCEPT !.cb_calls = h.cb_calls], st, lowest_rank, env,
                 closest_NS(B.qry, st, kr_dname_lf(B.qry.sname, FALSE), env,
                            [reads |-> B.reads, cb_calls |-> h.cb_calls]))

\* rd is what the read of the exact key returned
PeekRead(B, st, lowest_rank, env, rd) ==
    IF rd.ret # 0
    THEN PeekExact(B, st, lowest_rank, env,
                   [ret |-> rd.ret, qry |-> B.qry, pkt |-> B.pkt, cb_calls |-> 0])
    ELSE PeekExact(B, st, lowest_rank, env,
                   found_exact_hit(B.qry, B.pkt, rd.val, lowest_rank, env))

\* lr is what get_lowest_rank returned
PeekKeyed(B, st, env, lr) ==
    PeekRead([B EXCEPT !.reads = 1, !.floor = lr.rank, !.ta_consulted = lr.ta_consulted],
             st, lr.rank, env,
             cdb_read(st, key_exact_type_maypkt(kr_dname_lf(B.qry.sname, FALSE),
                                                B.qry.stype),
                      "read" \in env.F))

\* the call before anything is read
PeekStart(state, q, p) ==
    [state |-> state, qry |-> q, pkt |-> p, reads |-> 0, cb_calls |-> 0,
     floor |-> -1, ta_consulted |-> FALSE, path |-> "start", syncs |-> 0]

PeekChecked(B, rq, st, env) ==
    IF B.qry.stype = "NSEC" THEN PeekEnds(B, "stype_nsec")
    ELSE IF ~check_dname_for_lf(B.qry.sname) THEN PeekEnds(B, "zero_label")
    ELSE IF "lf" \in env.F THEN PeekEnds(B, "lf_error")
    ELSE PeekKeyed(B, st, env, get_lowest_rank(rq, B.qry))

\* a peek that does not note that the cache was tried
cache_peek_real_untried(state, q, rq, st, p, env) ==
    PeekChecked(PeekStart(state, q, p), rq, st, env)

cache_peek_real(state, q, rq, st, p, env) ==
    PeekChecked(PeekStart(state, [q EXCEPT !.flags.CACHE_TRIED = TRUE], p), rq, st, env)

\* whether cache_peek leaves the cache alone
PeekSkips(state, q) ==
    \/ state \cap (KR_STATE_FAIL \cup KR_STATE_DONE) # {}
    \/ q.flags.NO_CACHE
    \/ (q.flags.CACHE_TRIED /\ q.stale_cb = "none")
    \/ ~check_rrtype(q.stype)
    \/ q.sclass # "IN"

\* The result is that of cache_peek_real, and the backend syncs made.
cache_peek(state, q, rq, c, st, p, env) ==
    IF PeekSkips(state, q)
    THEN [PeekStart(state, q, p) EXCEPT !.path = "skipped"]
    ELSE [cache_peek_real(state, q, rq, st, p, env) EXCEPT !.syncs = SyncCalls(c)]

(***************************************************************************)
(* assert_right_version: F is the set of backend operations that fail in   *)
(* this call.  The result carries the return value, the store afterwards   *)
(* and the backend calls made.                                             *)
(***************************************************************************)
\* a version check that takes any entry it can read for the right one
VersionRead(rd) == rd.ret = 0

VersionMatches(rd) ==
    /\ rd.ret = 0
    /\ rd.val.kind = "raw"
    /\ ValLen(rd.val) = 2
    /\ rd.val.bytes = Encode16(CACHE_VERSION)

assert_right_version(st, c, F) ==
    LET rd == cdb_read(st, VersionKey, "read" \in F)
    IN IF VersionMatches(rd)
       THEN [ret |-> kr_error(Errno.EEXIST), store |-> st, clears |-> 0,
             writes |-> 0, reads |-> 1, syncs |-> SyncCalls(c)]
       ELSE LET cnt == cdb_count(st)
                purge == cnt # 0
                ret1 == IF ~purge THEN 0
                        ELSE IF "clear" \in F THEN kr_error(Errno.EIO) ELSE 0
                st1 == IF purge /\ ret1 = 0 THEN EmptyStore ELSE st
                ret2 == IF ret1 # 0 THEN ret1
                        ELSE IF "write" \in F THEN kr_error(Errno.EIO) ELSE 0
                st2 == IF ret1 = 0 /\ ret2 = 0
                       THEN cdb_write(st1, VersionKey, RawVal(Encode16(CACHE_VERSION)))
                       ELSE st1
            IN [ret |-> ret2, store |-> st2,
                clears |-> IF purge THEN 1 ELSE 0,
                writes |-> IF ret1 = 0 THEN 1 ELSE 0,
                reads |-> 1, syncs |-> SyncCalls(c)]

(***************************************************************************)
(* kr_cache_open.  Callers close a cache before they open it again.        *)
(***************************************************************************)
kr_cache_open_ret(arv) == 0

KrCacheOpen(F, has_sync) ==
    /\ ~cache.db
    /\ IF "open" \in F
       THEN /\ cache' = [cache EXCEPT !.has_sync = has_sync]
            /\ store' = store
            /\ last' = [NoCall EXCEPT !.op = "open", !.ret = kr_error(Errno.EIO),
                           !.info = [arv |-> 0,
                                     matched |-> VersionMatches(cdb_read(store, VersionKey, FALSE)),
                                     before |-> store]]
       ELSE LET c1 == [db |-> TRUE, has_sync |-> has_sync,
                       ttl_min |-> KR_CACHE_DEFAULT_TTL_MIN,
                       ttl_max |-> KR_CACHE_DEFAULT_TTL_MAX,
                       stats |-> ZeroStats]
                arv == assert_right_version(store, c1, F)
            IN /\ cache' = [c1 EXCEPT !.stats.delete = arv.clears]
               /\ store' = arv.store
               /\ last' = [NoCall EXCEPT !.op = "open",
                              !.ret = kr_cache_open_ret(arv),
                              !.reads = arv.reads, !.writes = arv.writes,
                              !.clears = arv.clears, !.syncs = arv.syncs,
                              !.info = [arv |-> arv.ret,
                                        matched |-> VersionMatches(cdb_read(store, VersionKey, FALSE)),
                                        before |-> store]]
    /\ UNCHANGED <<ctx_state, qry, req, selected, pkt>>

(***************************************************************************)
(* kr_cache_close, kr_cache_sync, kr_cache_clear                           *)
(***************************************************************************)
KrCacheClose ==
    /\ cache' = [cache EXCEPT !.db = FALSE]
    /\ last' = [NoCall EXCEPT !.op = "close",
                   !.closes = IF cache_isvalid(cache) THEN 1 ELSE 0]
    /\ UNCHANGED <<store, ctx_state, qry, req, selected, pkt>>

KrCacheSync ==
    /\ last' = [NoCall EXCEPT !.op = "sync", !.ret = kr_cache_sync(cache),
                   !.syncs = SyncCalls(cache)]
    /\ UNCHANGED <<store, cache, ctx_state, qry, req, selected, pkt>>

KrCacheClear(F) ==
    /\ cache.stats.delete < MaxDelete
    /\ IF ~cache_isvalid(cache)
       THEN /\ last' = [NoCall EXCEPT !.op = "clear", !.ret = kr_error(Errno.EINVAL)]
            /\ UNCHANGED <<store, cache>>
       ELSE IF "clear" \in F
       THEN /\ cache' = [cache EXCEPT !.stats.delete = @ + 1]
            /\ last' = [NoCall EXCEPT !.op = "clear", !.ret = kr_error(Errno.EIO),
                           !.clears = 1]
            /\ store' = store
       ELSE LET arv == assert_right_version(EmptyStore, cache, F)
            IN /\ cache' = [cache EXCEPT !.stats.delete = @ + 1 + arv.clears]
               /\ store' = arv.store
               /\ last' = [NoCall EXCEPT !.op = "clear", !.ret = arv.ret,
                              !.reads = arv.reads, !.writes = arv.writes,
                              !.clears = 1 + arv.clears, !.syncs = arv.syncs]
    /\ UNCHANGED <<ctx_state, qry, req, selected, pkt>>

(***************************************************************************)
(* kr_cache_insert_rr                                                      *)
(***************************************************************************)
kr_cache_insert_rr_ret(written) == IF written >= 0 THEN kr_ok ELSE written

KrCacheInsertRR(rr, rrsig, rank, timestamp, env) ==
    /\ cache_isvalid(cache)
    /\ cache.stats.insert < MaxInsert
    /\ LET err == stash_rrset_precond(rr)
           w == stash_rrset(store, cache, rr, rrsig, timestamp, rank, env)
           call == [NoCall EXCEPT !.op = "insert_rr"]
       IN IF err <= 0
          THEN /\ last' = [call EXCEPT !.ret = kr_ok,
                              !.info = [rr |-> rr, rr_sigs |-> rrsig, rank |-> rank,
                                        timestamp |-> timestamp, inserted |-> 0,
                                        keys |-> {}]]
               /\ UNCHANGED <<store, cache>>
          ELSE /\ store' = w.store
               /\ cache' = [cache EXCEPT !.stats.insert = @ + w.inserted]
               /\ last' = [call EXCEPT !.ret = kr_cache_insert_rr_ret(w.ret),
                              !.writes = w.inserted,
                              !.info = [rr |-> rr, rr_sigs |-> rrsig, rank |-> rank,
                                        timestamp |-> timestamp,
                                        inserted |-> w.inserted,
                                        keys |-> IF w.inserted > 0 THEN {w.key} ELSE {}]]
    /\ UNCHANGED <<ctx_state, qry, req, selected, pkt>>

(***************************************************************************)
(* kr_cache_peek_exact.  F is the set of steps that fail in the call.  The *)
(* result: the return value, the backend reads made, and what was written  *)
(* to *peek.                                                               *)
(***************************************************************************)
\* a look-up that hands out packet entries
PeekExactRefusesBroken(eh) == ~entry_h_consistent(eh)

\* no packets
PeekExactRefuses(eh) == ~entry_h_consistent(eh) \/ eh.is_packet

NoPeek == [set |-> FALSE]

peek_exact_real(st, name, type, F) ==
    LET key == key_exact_type(kr_dname_lf(name, FALSE), type)
        rd == IF key = NullKey THEN [ret |-> kr_error(Errno.EINVAL)]
              ELSE cdb_read(st, key, "read" \in F)
        sk == IF rd.ret # 0 THEN [ret |-> rd.ret]
              ELSE IF "seek" \in F THEN [ret |-> kr_error(Errno.EINVAL)]
              ELSE entry_h_seek(rd.val, type)
        none(r, reads) == [ret |-> r, reads |-> reads, peek |-> NoPeek]
    IN IF ~check_rrtype(type) \/ ~check_dname_for_lf(name)
       THEN none(kr_error(Errno.ENOTSUP), 0)
       ELSE IF "lf" \in F THEN none(kr_error(Errno.EINVAL), 0)
       ELSE IF sk.ret # 0 THEN none(kr_error(sk.ret), 1)
       ELSE IF PeekExactRefuses(sk.eh) THEN none(kr_error(Errno.ENOENT), 1)
       ELSE [ret |-> kr_ok, reads |-> 1,
             peek |-> [set |-> TRUE, time |-> sk.eh.time, ttl |-> sk.eh.ttl,
                       rank |-> sk.eh.rank, raw_data |-> sk.eh.data]]

KrCachePeekExact(name, type, F) ==
    /\ cache_isvalid(cache)
    /\ LET r == peek_exact_real(store, name, type, F)
       IN last' = [NoCall EXCEPT !.op = "peek_exact", !.ret = r.ret,
                                 !.reads = r.reads,
                                 !.info = [name |-> name, type |-> type, F |-> F,
                                           peek |-> r.peek]]
    /\ UNCHANGED <<store, cache, ctx_state, qry, req, selected, pkt>>

(***************************************************************************)
(* The resolver hands a request to the cache layer: the layer state, the   *)
(* current query, the request (CD bit, trust anchors) and the records      *)
(* selected from the answer.                                               *)
(***************************************************************************)
NoFlags == [NO_CACHE |-> FALSE, CACHE_TRIED |-> FALSE, CACHED |-> FALSE,
            NO_MINIMIZE |-> FALSE, EXPIRING |-> FALSE, DNSSEC_INSECURE |-> FALSE,
            DNSSEC_WANT |-> TRUE, STUB |-> FALSE, NONAUTH |-> FALSE]

NoSelected == <<<<>>, <<>>, <<>>>>

NewRequest(state, q, rq, sel) ==
    /\ ctx_state' = state
    /\ qry' = q
    /\ req' = rq
    /\ selected' = sel
    /\ pkt' = PktOrig
    /\ last' = [NoCall EXCEPT !.op = "request"]
    /\ UNCHANGED <<store, cache>>

(***************************************************************************)
(* The layer functions: the state they return becomes the layer state.     *)
(***************************************************************************)
\* r is what cache_peek returned
CachePeekReturns(r) ==
    /\ ctx_state' = r.state
    /\ qry' = r.qry
    /\ pkt' = r.pkt
    /\ last' = [NoCall EXCEPT !.op = "peek", !.state = r.state,
                   !.reads = r.reads, !.syncs = r.syncs,
                   !.info = [state_in |-> ctx_state, qry_in |-> qry,
                             pkt_in |-> pkt, path |-> r.path,
                             floor |-> r.floor,
                             ta_consulted |-> r.ta_consulted,
                             cb_calls |-> r.cb_calls]]

CachePeek(env) ==
    /\ cache_isvalid(cache)
    /\ req.has_qry
    /\ CachePeekReturns(cache_peek(ctx_state, qry, req, cache, store, pkt, env))
    /\ UNCHANGED <<store, cache, req, selected>>

\* r is what cache_stash returned
CacheStashReturns(r) ==
    /\ ctx_state' = r.state
    /\ store' = r.S.store
    /\ selected' = r.S.sel
    /\ cache' = [cache EXCEPT !.stats.insert = @ + r.S.inserted]
    /\ last' = [NoCall EXCEPT !.op = "stash", !.state = r.state,
                   !.ret = r.S.ret, !.writes = r.S.inserted,
                   !.syncs = r.syncs,
                   !.info = [state_in |-> ctx_state, skipped |-> r.skipped,
                             tried |-> r.S.tried, keys |-> r.S.keys,
                             inserted |-> r.S.inserted, sel_in |-> selected,
                             pkt_stashed |-> r.pkt_stashed,
                             timestamp |-> qry.timestamp]]

CacheStash(qtype, tc, env) ==
    /\ cache_isvalid(cache)
    /\ cache.stats.insert < MaxInsert
    /\ CacheStashReturns(cache_stash(ctx_state, req.has_qry, qry, cache, store,
                                     selected, qtype, tc, env))
    /\ UNCHANGED <<qry, req, pkt>>

(***************************************************************************)
(* Names, records and entries the specifications draw their inputs from.   *)
(***************************************************************************)
NameRoot == <<>>
NameZ == <<<<122>>>>
NameAZ == <<<<97>>, <<122>>>>
NameZero == <<<<97, 0>>, <<122>>>>

RR(owner, type, ttl, rdata) ==
    [null |-> FALSE, owner |-> owner, type |-> type, rclass |-> "IN",
     ttls |-> <<ttl>>, rdata |-> rdata, covered |-> "none", labels |-> 0,
     signer |-> NameRoot]

RRSig(owner, covered, ttl, labels, signer) ==
    [null |-> FALSE, owner |-> owner, type |-> "RRSIG", rclass |-> "IN",
     ttls |-> <<ttl>>, rdata |-> "sig", covered |-> covered, labels |-> labels,
     signer |-> signer]

Qry(sname, stype, now) ==
    [uid |-> 1, sname |-> sname, stype |-> stype, sclass |-> "IN",
     timestamp |-> now, stale_cb |-> "none", flags |-> NoFlags]

NoReq == [cd |-> FALSE, ta_covers |-> FALSE, has_qry |-> FALSE]

StashEnv(F) == [F |-> F, skip |-> FALSE,
                pkt |-> [null |-> TRUE, ttl |-> 0, rank |-> 0, has_optout |-> FALSE]]

\* no step fails, or one does
OneOf(steps) == {{}} \cup {{f} : f \in steps}

UserKey == key_exact_type(kr_dname_lf(NameAZ, FALSE), "A")
UserVal == EntryVal([t \in {"A"} |->
               [time |-> 100, ttl |-> 300, rank |-> KR_RANK_AUTH,
                is_packet |-> FALSE, has_optout |-> FALSE,
                data |-> [rdata |-> "a1", sigs |-> "none"]]])

\* what a store file holds when the program starts
VersionVals == {RawVal(Encode16(CACHE_VERSION)), RawVal(Encode16(CACHE_VERSION - 1)),
                RawVal(<<CACHE_VERSION>>)}

InitStores ==
    {EmptyStore, cdb_write(EmptyStore, UserKey, UserVal)}
    \cup {cdb_write(EmptyStore, VersionKey, v) : v \in VersionVals}
    \cup {cdb_write(cdb_write(EmptyStore, VersionKey, v), UserKey, UserVal) :
            v \in VersionVals}

InitWith(stores) ==
    /\ store \in stores
    /\ cache = ClosedCache
    /\ ctx_state = KR_STATE_CONSUME
    /\ qry = Qry(NameRoot, "A", 0)
    /\ req = NoReq
    /\ selected = NoSelected
    /\ pkt = PktOrig
    /\ last = NoCall

(***************************************************************************)
(* The lifecycle of the cache over the stores it may be opened on.         *)
(***************************************************************************)
InitLife == InitWith(InitStores)

LifeRRs == {RR(NameAZ, "A", 300, "a1"), RR(NameZ, "NS", 300, "ns1")}

OpenFaults == OneOf({"open", "read", "clear", "write"})

NextLife ==
    \/ \E F \in OpenFaults, has_sync \in BOOLEAN : KrCacheOpen(F, has_sync)
    \/ KrCacheClose
    \/ KrCacheSync
    \/ \E F \in OpenFaults : KrCacheClear(F)
    \/ \E rr \in LifeRRs :
         KrCacheInsertRR(rr, NoSigs, KR_RANK_AUTH, 100, StashEnv({}))

SpecLife == InitLife /\ [][NextLife]_vars

(***************************************************************************)
(* Requests peeking into a cache filled by kr_cache_insert_rr and by       *)
(* cache_stash (packets): exact entries, a CNAME, a DNAME, a wildcard, an  *)
(* NSEC and a SOA of the root zone, of several ranks.                      *)
(***************************************************************************)
InitPeek == InitWith({EmptyStore})

Insert(rr, sigs, rank) == [rr |-> rr, sigs |-> sigs, rank |-> rank]

PeekInserts ==
    {Insert(RR(NameAZ, "A", 300, "a1"), NoSigs, r) :
        r \in {KR_RANK_INITIAL, KR_RANK_AUTH}}
    \cup {Insert(RR(NameAZ, "CNAME", 300, "c1"), NoSigs, r) :
        r \in {KR_RANK_AUTH, KR_RANK_INSECURE + KR_RANK_AUTH}}
    \cup {Insert(RR(NameZ, "NSEC", 300, "n1"), RRSig(NameZ, "NSEC", 300, 1, NameRoot),
                 KR_RANK_SECURE + KR_RANK_AUTH),
          Insert(RR(NameRoot, "SOA", 300, "soa1"), NoSigs, KR_RANK_AUTH),
          Insert(RR(NameZ, "DNAME", 300, "d1"), NoSigs, KR_RANK_INSECURE + KR_RANK_AUTH),
          Insert(RR(NameAZ, "A", 300, "w1"), RRSig(NameAZ, "A", 300, 1, NameRoot),
                 KR_RANK_AUTH)}

\* a request: the layer state, the query, the request
Request(state, q, rq) == [state |-> state, q |-> q, rq |-> rq]

BaseQry == Qry(NameAZ, "A", 100)
BaseReq == [cd |-> FALSE, ta_covers |-> TRUE, has_qry |-> TRUE]

\* every combination of what get_lowest_rank reads
FloorRequests ==
    {Request(KR_STATE_PRODUCE,
             [BaseQry EXCEPT !.flags.NONAUTH = na, !.flags.STUB = stub],
             [BaseReq EXCEPT !.cd = cd, !.ta_covers = ta]) :
        na \in BOOLEAN, stub \in BOOLEAN, cd \in BOOLEAN, ta \in BOOLEAN}

\* the base request with one thing changed
VariedRequests ==
    {Request(st, BaseQry, BaseReq) :
        st \in {KR_STATE_CONSUME, KR_STATE_DONE, KR_STATE_FAIL}}
    \cup {Request(KR_STATE_PRODUCE, [BaseQry EXCEPT !.stype = t], BaseReq) :
        t \in {"RRSIG", "ANY", "NSEC", "CNAME"}}
    \cup {Request(KR_STATE_PRODUCE, q, BaseReq) :
        q \in {[BaseQry EXCEPT !.flags.NO_CACHE = TRUE],
               [BaseQry EXCEPT !.flags.CACHE_TRIED = TRUE],
               [BaseQry EXCEPT !.flags.CACHE_TRIED = TRUE, !.stale_cb = "grant30"],
               [BaseQry EXCEPT !.sclass = "CH"],
               [BaseQry EXCEPT !.sname = NameZero]}}

PeekRequests == FloorRequests \cup VariedRequests

\* the steps of cache_peek that may fail
PeekSteps == {"lf", "read", "seek", "from_pkt", "renew", "begin", "e2a", "append",
              "ns_read", "encloser", "synth", "lf_wild", "wild_read", "soa_read",
              "e2a_soa"}

\* what the NSEC assembler finds
NsecFind(rcode, synth, clencl) == [rcode |-> rcode, synth |-> synth, clencl |-> clencl]

NsecFinds ==
    {NsecFind("none", "covered", 0), NsecFind("PKT_NODATA", "covered", 0),
     NsecFind("PKT_NXDOMAIN", "covered", 0), NsecFind("PKT_NXDOMAIN", "nodata", 0),
     NsecFind("PKT_NXDOMAIN", "wild", 0), NsecFind("PKT_NXDOMAIN", "wild", 1)}

PeekEnv(F, n, uninit) == [F |-> F, nsec |-> n, uninit |-> uninit]

\* no step fails and the assembler finds any of the above, or one step
\* fails on the way to a denial or to a wildcard answer
PeekEnvs ==
    {PeekEnv({}, n, 0) : n \in NsecFinds}
    \cup {PeekEnv({f}, n, 0) :
            f \in PeekSteps,
            n \in {NsecFind("PKT_NXDOMAIN", "covered", 0),
                   NsecFind("PKT_NXDOMAIN", "wild", 1)}}
    \cup {PeekEnv({"ns_read"}, NsecFind("PKT_NXDOMAIN", "covered", 0), 255)}

\* the packets stash_pkt stores
StashedPkts ==
    {[null |-> FALSE, ttl |-> 300, rank |-> KR_RANK_AUTH, has_optout |-> FALSE]}

\* the cache is filled before the requests arrive
Filling == last.op \in {"open", "insert_rr"}

NextPeek ==
    \/ KrCacheOpen({}, TRUE)
    \/ \E i \in PeekInserts :
         /\ Filling
         /\ KrCacheInsertRR(i.rr, i.sigs, i.rank, 100, StashEnv({}))
    \/ \E r \in PeekRequests : NewRequest(r.state, r.q, r.rq, NoSelected)
    \/ \E env \in PeekEnvs : CachePeek(env)
    \/ \E p \in StashedPkts :
         CacheStash("A", FALSE, [StashEnv({}) EXCEPT !.pkt = p])

SpecPeek == InitPeek /\ [][NextPeek]_vars

(***************************************************************************)
(* One name and type stashed and peeked at several times: TTLs below       *)
(* ttl_min, signatures that expire first, entries younger than the         *)
(* request, entries at and past their expiry, stale-serving callbacks.     *)
(***************************************************************************)
InitTtl == InitWith({EmptyStore})

ASig == RRSig(NameAZ, "A", 200, 2, NameRoot)

TtlInserts ==
    {[rr |-> RR(NameAZ, "A", ttl, "a1"), sigs |-> sigs, rank |-> r, time |-> 100] :
        ttl \in {3, 300}, sigs \in {NoSigs, ASig},
        r \in {KR_RANK_AUTH, KR_RANK_INSECURE + KR_RANK_AUTH,
               KR_RANK_BOGUS + KR_RANK_AUTH}}
    \cup {[rr |-> RR(NameAZ, "A", 300, "a1"), sigs |-> NoSigs,
           rank |-> KR_RANK_INSECURE + KR_RANK_AUTH, time |-> 200]}

\* an RR selected from the answer to the query
Selected(rr, rank) == [rr |-> rr, rank |-> rank, cached |-> FALSE, qry_uid |-> 1]

TtlSelected ==
    {NoSelected,
     <<<<Selected(RR(NameAZ, "A", 300, "a1"), KR_RANK_INSECURE + KR_RANK_AUTH)>>,
       <<>>, <<>>>>,
     <<<<Selected(ASig, KR_RANK_INSECURE + KR_RANK_AUTH),
         Selected(RR(NameAZ, "A", 3, "a1"), KR_RANK_INSECURE + KR_RANK_AUTH)>>,
       <<>>, <<>>>>}

\* the time of the request and its callback
TtlQueries ==
    {[Qry(NameAZ, "A", now) EXCEPT !.stale_cb = cb] :
        now \in {50, 100, 400}, cb \in {"none", "grant30"}}
    \cup {[Qry(NameAZ, "A", 401) EXCEPT !.stale_cb = cb] : cb \in StaleCbs}

TtlRequests ==
    {[q |-> q, rq |-> [BaseReq EXCEPT !.ta_covers = ta], sel |-> NoSelected] :
        q \in TtlQueries, ta \in BOOLEAN}
    \cup {[q |-> Qry(NameAZ, "A", 100), rq |-> BaseReq, sel |-> sel] :
            sel \in TtlSelected}

TtlEnvs == {PeekEnv(F, NsecFind("none", "covered", 0), 0) :
                F \in {{}, {"read"}, {"append"}}}

NextTtl ==
    \/ KrCacheOpen({}, TRUE)
    \/ \E i \in TtlInserts :
         KrCacheInsertRR(i.rr, i.sigs, i.rank, i.time, StashEnv({}))
    \/ \E r \in TtlRequests : NewRequest(KR_STATE_PRODUCE, r.q, r.rq, r.sel)
    \/ \E env \in TtlEnvs : CachePeek(env)
    \/ CacheStash("A", FALSE, StashEnv({}))

SpecTtl == InitTtl /\ [][NextTtl]_vars

(***************************************************************************)
(* cache_stash over the records selected from an answer, with every step   *)
(* of stashing a record failing or not.                                    *)
(***************************************************************************)
InitStash == InitWith({EmptyStore})

StashSelected ==
    TtlSelected
    \cup {<<<<Selected(RR(NameAZ, "A", 300, "a1"), KR_RANK_AUTH)>>,
            <<Selected(RR(NameZ, "NS", 300, "ns1"), KR_RANK_AUTH)>>,
            <<Selected(RR(NameRoot, "A", 300, "g1"), KR_RANK_INITIAL)>>>>,
          <<<<Selected([RR(NameAZ, "A", 300, "a1") EXCEPT !.rclass = "CH"],
                       KR_RANK_AUTH)>>, <<>>, <<>>>>,
          <<<<Selected(RR(NameZero, "A", 300, "a1"), KR_RANK_AUTH)>>, <<>>, <<>>>>}

StashRequests ==
    {Request(st, BaseQry, [BaseReq EXCEPT !.has_qry = h]) :
        st \in {KR_STATE_CONSUME, KR_STATE_DONE, KR_STATE_FAIL}, h \in BOOLEAN}
    \cup {Request(KR_STATE_CONSUME, q, BaseReq) :
            q \in {[BaseQry EXCEPT !.flags.CACHED = TRUE],
                   [BaseQry EXCEPT !.sclass = "CH"]}}

StashSteps == {"lf", "splice", "demat"}

StashEnvs ==
    {[StashEnv(F) EXCEPT !.skip = k, !.pkt = p] :
        F \in OneOf(StashSteps), k \in BOOLEAN,
        p \in StashedPkts \cup {StashEnv({}).pkt}}

NextStash ==
    \/ KrCacheOpen({}, TRUE)
    \/ \E r \in StashRequests, sel \in StashSelected :
         NewRequest(r.state, r.q, r.rq, sel)
    \/ \E qtype \in {"A", "RRSIG"}, tc \in BOOLEAN, env \in StashEnvs :
         CacheStash(qtype, tc, env)

SpecStash == InitStash /\ [][NextStash]_vars

(***************************************************************************)
(* The version entry (C9, C10).                                            *)
(***************************************************************************)
VersionOnly == cdb_write(EmptyStore, VersionKey, RawVal(Encode16(CACHE_VERSION)))

HoldsVersion(st) == VersionMatches(cdb_read(st, VersionKey, FALSE))

\* C9: after kr_cache_open over a store whose version entry is missing, of
\* the wrong length or of another value, and after a successful
\* kr_cache_clear, the store holds the version entry and nothing else; when
\* the version entry matches, open removes nothing.
C9_PurgeAndRestamp ==
    /\ (last.op = "open" /\ last.ret = 0 /\ ~last.info.matched) => store = VersionOnly
    /\ (last.op = "clear" /\ last.ret = 0) => store = VersionOnly
    /\ (last.op = "open" /\ last.info.matched) => store = last.info.before

\* an open that returned success over a store with a wrong version entry and
\* left the old entries in place
C9_Failing ==
    /\ last.op = "open" /\ last.ret = 0 /\ ~last.info.matched
    /\ UserKey \in DOMAIN store
    /\ ~HoldsVersion(store)

\* C10: whenever kr_cache_open returns success the store holds the version
\* key with CACHE_VERSION; when the purge or the write of the version entry
\* fails, kr_cache_open returns an error.
C10_OpenSuccessHasVersion ==
    /\ (last.op = "open" /\ last.ret = 0) => HoldsVersion(store)
    /\ (last.op = "open" /\ last.info.arv < 0 /\ last.info.arv # kr_error(Errno.EEXIST))
           => last.ret # 0

\* an open whose version check failed and which returned success
C10_Failing ==
    /\ last.op = "open" /\ last.ret = 0
    /\ last.info.arv = kr_error(Errno.EIO)
    /\ ~HoldsVersion(store)

(***************************************************************************)
(* What cache_peek returns and touches (C1, C2).                           *)
(***************************************************************************)
\* C1: cache_peek returns KR_STATE_DONE or exactly the state it was called
\* with, whatever the backend reads and the helper steps come to.
C1_PeekDoneOrSame ==
    last.op = "peek" =>
        (last.state = KR_STATE_DONE \/ last.state = last.info.state_in)

\* a helper step failed and the state came back as it was
C1_PeekFailedStep ==
    /\ last.op = "peek"
    /\ last.info.path \in {"exact_error", "cname_error", "wild_error", "soa_error",
                           "write_error", "synth_error", "encloser_error"}
    /\ last.state = last.info.state_in
    /\ last.state = KR_STATE_PRODUCE

\* C2: when the state has FAIL or DONE, or the query has NO_CACHE, or has
\* CACHE_TRIED and no stale callback, or its class is not IN, or its type is
\* a metatype or RRSIG, or its name has a label with a zero byte, cache_peek
\* returns the caller's state, reads nothing from the backend and leaves the
\* packet as it was.
C2_SkipLeavesAlone ==
    last.op = "peek" =>
        LET q == last.info.qry_in
            state == last.info.state_in
            zero_label == \E i \in 1..Len(q.sname) :
                             \E j \in 1..Len(q.sname[i]) : q.sname[i][j] = 0
        IN (\/ "FAIL" \in state
            \/ "DONE" \in state
            \/ q.flags.NO_CACHE
            \/ (q.flags.CACHE_TRIED /\ q.stale_cb = "none")
            \/ q.sclass # "IN"
            \/ q.stype \in {"OPT", "ANY", "RRSIG"}
            \/ zero_label)
           => /\ last.state = state
              /\ last.reads = 0
              /\ pkt = last.info.pkt_in

\* the name with a zero byte got as far as check_dname_for_lf
C2_ZeroLabelSkipped ==
    /\ last.op = "peek"
    /\ last.info.path = "zero_label"
    /\ last.info.qry_in.sname = NameZero
    /\ last.reads = 0

(***************************************************************************)
(* The rank floor (C6, C7).                                                *)
(***************************************************************************)
\* C6: no RR-set or packet whose stored rank is below the floor of the
\* request is put into the packet by cache_peek: not as the exact answer,
\* not as the CNAME found by closest_NS, not as the wildcard answer, not as
\* the SOA.
C6_NothingBelowFloor ==
    (last.op = "peek" /\ pkt # last.info.pkt_in) =>
        LET rrsets == pkt.answer \o pkt.authority
        IN \A i \in 1..Len(rrsets) :
              rrsets[i].src \in {"simple", "packet", "wild", "soa"}
                  => rrsets[i].rank >= last.info.floor

\* the exact entry is below the floor and the peek went on to the cut
C6_LowRankPassedOver ==
    /\ last.op = "peek"
    /\ last.info.qry_in.sname = NameAZ
    /\ last.info.qry_in.stype = "A"
    /\ UserKey \in DOMAIN store
    /\ store[UserKey].kind = "entries"
    /\ "A" \in DOMAIN store[UserKey].ents
    /\ store[UserKey].ents["A"].rank < last.info.floor
    /\ last.reads >= 2
    /\ last.info.path # "exact_hit"

\* C7: the floor is INITIAL for a NONAUTH query; else INITIAL|AUTH when the
\* request has CD or the query is in stub mode; else INSECURE|AUTH when a
\* trust anchor covers the name and INITIAL|AUTH when none does; the trust
\* anchors are consulted in the last case only.
C7_FloorTable ==
    (last.op = "peek" /\ last.info.floor # -1) =>
        LET f == last.info.qry_in.flags
        IN /\ last.info.floor =
                 (IF f.NONAUTH THEN KR_RANK_INITIAL
                  ELSE IF req.cd \/ f.STUB THEN KR_RANK_INITIAL + KR_RANK_AUTH
                  ELSE IF req.ta_covers THEN KR_RANK_INSECURE + KR_RANK_AUTH
                  ELSE KR_RANK_INITIAL + KR_RANK_AUTH)
           /\ last.info.ta_consulted = (~f.NONAUTH /\ ~req.cd /\ ~f.STUB)

\* a NONAUTH query of a request with CD got the floor INITIAL
C7_NonauthWithCd ==
    /\ last.op = "peek"
    /\ last.info.qry_in.flags.NONAUTH
    /\ req.cd
    /\ req.ta_covers
    /\ last.info.floor = KR_RANK_INITIAL
    /\ ~last.info.ta_consulted

(***************************************************************************)
(* Stash, then peek (C3).                                                  *)
(***************************************************************************)
\* the RR-sets the last call has written under the key of their owner and
\* type: each with its signatures, its rank and the time of the stash
Stashed ==
    IF last.op = "insert_rr"
    THEN {s \in {[rr |-> last.info.rr, rr_sigs |-> last.info.rr_sigs,
                  rank |-> last.info.rank, time |-> last.info.timestamp]} :
            key_exact_type(kr_dname_lf(s.rr.owner, FALSE), s.rr.type)
                \in last.info.keys}
    ELSE IF last.op = "stash"
    THEN LET sel == last.info.sel_in
             at == {pi \in (1..3) \X (1..3) :
                      /\ pi[2] <= Len(sel[pi[1]])
                      /\ sel[pi[1]][pi[2]].rr.type # "RRSIG"
                      /\ key_exact_type(kr_dname_lf(sel[pi[1]][pi[2]].rr.owner, FALSE),
                                        sel[pi[1]][pi[2]].rr.type) \in last.info.keys}
             sigs(arr, rr) == IF FindSigs(arr, Len(arr), rr, qry) = 0 THEN NoSigs
                              ELSE arr[FindSigs(arr, Len(arr), rr, qry)].rr
         IN {[rr |-> sel[pi[1]][pi[2]].rr,
              rr_sigs |-> sigs(sel[pi[1]], sel[pi[1]][pi[2]].rr),
              rank |-> sel[pi[1]][pi[2]].rank,
              time |-> last.info.timestamp] : pi \in at}
    ELSE {}

\* the least of the TTLs of an RR-set and of its signatures
LeastTtl(rr, rr_sigs) ==
    LET all == rr.ttls \o (IF rr_sigs.null THEN <<>> ELSE rr_sigs.ttls)
    IN CHOOSE x \in {all[i] : i \in DOMAIN all} : \A i \in DOMAIN all : x <= all[i]

\* C3: an RR-set R of class IN, of a cacheable type other than NSEC and with
\* no zero byte in its owner, stashed at time now with a rank that is not
\* BOGUS and is at least the floor of the request, is returned by the peek
\* for (R.owner, R.type) at the same time now that follows the stash, when
\* that peek is not skipped and no step of it fails: the peek returns
\* KR_STATE_DONE with R as the answer, and its TTL is the least TTL of R and
\* of its signatures, raised to ttl_min and lowered to ttl_max.
C3_RoundTripClampedTtl ==
    [][\A s \in Stashed :
          (/\ last'.op = "peek"
           /\ last'.info.path \notin {"skipped", "stype_nsec", "zero_label",
                                      "lf_error", "exact_error"}
           /\ qry.sname = s.rr.owner
           /\ qry.stype = s.rr.type
           /\ qry.timestamp = s.time
           /\ s.rank >= last'.info.floor
           /\ ~kr_rank_test(s.rank, KR_RANK_BOGUS)
           /\ s.rr.type # "NSEC")
          => /\ last'.state = KR_STATE_DONE
             /\ Len(pkt'.answer) = 1
             /\ pkt'.answer[1].owner = s.rr.owner
             /\ pkt'.answer[1].type = s.rr.type
             /\ pkt'.answer[1].rdata = s.rr.rdata
             /\ pkt'.answer[1].ttl =
                    Max(Min(LeastTtl(s.rr, s.rr_sigs), cache.ttl_max), cache.ttl_min)]_vars

\* C3 as stated: the peek that follows the stash returns R with R's own TTL
C3_RoundTripOwnTtl ==
    [][\A s \in Stashed :
          (/\ last'.op = "peek"
           /\ last'.info.path \notin {"skipped", "stype_nsec", "zero_label",
                                      "lf_error", "exact_error"}
           /\ qry.sname = s.rr.owner
           /\ qry.stype = s.rr.type
           /\ qry.timestamp = s.time
           /\ s.rank >= last'.info.floor)
          => /\ last'.state = KR_STATE_DONE
             /\ Len(pkt'.answer) = 1
             /\ pkt'.answer[1].rdata = s.rr.rdata
             /\ pkt'.answer[1].ttl = LeastTtl(s.rr, NoSigs)]_vars

\* an RR-set stashed with a TTL below ttl_min is served at the time of the
\* stash with the TTL ttl_min
C3_ClampedServed ==
    /\ last.op = "peek"
    /\ last.info.path = "exact_hit"
    /\ last.state = KR_STATE_DONE
    /\ HasEntry(store, UserKey, "A")
    /\ store[UserKey].ents["A"].time = last.info.qry_in.timestamp
    /\ store[UserKey].ents["A"].ttl = KR_CACHE_DEFAULT_TTL_MIN
    /\ Len(pkt.answer) = 1
    /\ pkt.answer[1].ttl = KR_CACHE_DEFAULT_TTL_MIN

(***************************************************************************)
(* The TTL served (C4, C5).                                                *)
(***************************************************************************)
\* the peek was for a name and type whose entry fits the request, it was
\* not skipped and no step of it failed
PeekOfFitEntry ==
    /\ last.op = "peek"
    /\ last.info.path \notin {"skipped", "stype_nsec", "zero_label", "lf_error",
                              "exact_error"}
    /\ last.info.qry_in.sname = NameAZ
    /\ last.info.qry_in.stype = "A"
    /\ HasEntry(store, UserKey, "A")
    /\ ~store[UserKey].ents["A"].is_packet
    /\ ~kr_rank_test(store[UserKey].ents["A"].rank, KR_RANK_BOGUS)
    /\ store[UserKey].ents["A"].rank >= last.info.floor

\* the peek served the entry with the TTL
ServedWith(ttl) ==
    /\ last.state = KR_STATE_DONE
    /\ last.info.path = "exact_hit"
    /\ Len(pkt.answer) = 1
    /\ pkt.answer[1].rdata = store[UserKey].ents["A"].data.rdata
    /\ pkt.answer[1].ttl = ttl

\* the peek did not serve the entry
NotServed ==
    /\ last.state = last.info.state_in
    /\ last.info.path # "exact_hit"
    /\ pkt = last.info.pkt_in

\* C4: for an entry stored at time t with TTL T, get_new_ttl at time now
\* returns T - max(0, now - t); an exact-match peek at t + d with
\* 0 <= d <= T serves the record with TTL T - d, a peek before t serves it
\* with TTL T, and a peek at d > T with no stale callback is a miss.
C4_TtlDecay ==
    /\ \A k \in DOMAIN store :
          store[k].kind = "entries" =>
              \A t \in DOMAIN store[k].ents, now \in {0, 50, 100, 150, 400, 401, 1000} :
                  get_new_ttl(store[k].ents[t], Qry(NameAZ, t, now), TRUE, TRUE,
                              NameAZ, t, now).ttl
                      = store[k].ents[t].ttl - Max(0, now - store[k].ents[t].time)
    /\ PeekOfFitEntry =>
          LET d == last.info.qry_in.timestamp - store[UserKey].ents["A"].time
              T == store[UserKey].ents["A"].ttl
          IN /\ (0 <= d /\ d <= T) => ServedWith(T - d)
             /\ d < 0 => ServedWith(T)
             /\ (d > T /\ last.info.qry_in.stale_cb = "none") => NotServed

\* a peek at the very end of the TTL served the record with TTL 0
C4_ServedAtExpiry ==
    /\ PeekOfFitEntry
    /\ last.info.qry_in.timestamp
           = store[UserKey].ents["A"].time + store[UserKey].ents["A"].ttl
    /\ ServedWith(0)

\* C5: the stale callback of the query is called only when the residual
\* TTL of the entry is negative; when it returns v >= 0 the entry is served
\* with TTL v; with no callback, or with a callback returning a negative
\* value, the entry is unfit and is not served.
C5_StaleServing ==
    /\ (last.op = "peek" /\ last.info.cb_calls > 0) =>
          /\ last.info.qry_in.stale_cb # "none"
          /\ HasEntry(store, UserKey, "A")
          /\ store[UserKey].ents["A"].ttl
                 - Max(0, last.info.qry_in.timestamp - store[UserKey].ents["A"].time) < 0
    /\ PeekOfFitEntry =>
          LET q == last.info.qry_in
              res == store[UserKey].ents["A"].ttl
                         - Max(0, q.timestamp - store[UserKey].ents["A"].time)
              v == stale_cb(q.stale_cb, res, q.sname, q.stype)
          IN /\ (res < 0 /\ q.stale_cb # "none" /\ v >= 0) => ServedWith(v)
             /\ (res < 0 /\ (q.stale_cb = "none" \/ v < 0)) => NotServed

\* an expired entry was served with the TTL the callback granted
C5_StaleServed ==
    /\ PeekOfFitEntry
    /\ last.info.qry_in.stale_cb = "grant30"
    /\ last.info.qry_in.timestamp
           > store[UserKey].ents["A"].time + store[UserKey].ents["A"].ttl
    /\ last.info.cb_calls = 1
    /\ ServedWith(30)

(***************************************************************************)
(* What cache_stash returns (C8).                                          *)
(***************************************************************************)
\* C8: cache_stash returns exactly the state it was called with, whatever
\* the packet, the selected records and the outcome of stashing each record
\* and of the backend.
C8_StashKeepsState ==
    last.op = "stash" => last.state = last.info.state_in

\* stashing a record failed and the state came back as it was
C8_StashFailedRecord ==
    /\ last.op = "stash"
    /\ ~last.info.skipped
    /\ last.ret < 0
    /\ last.info.tried > 0
    /\ last.state = KR_STATE_CONSUME

(***************************************************************************)
(* Closing the cache (C11).                                                *)
(***************************************************************************)
\* C11: the backend's close is called at most once per successful open:
\* a close calls it only on an open handle and clears the handle, and only
\* a successful open sets the handle; on a closed cache kr_cache_sync and
\* kr_cache_clear return EINVAL and call no backend operation.
C11_CloseOnce ==
    [][/\ last'.op = "close" =>
             /\ ~cache'.db
             /\ last'.closes = (IF cache.db THEN 1 ELSE 0)
             /\ store' = store
       /\ (~cache.db /\ cache'.db) => (last'.op = "open" /\ last'.ret = 0)
       /\ (~cache.db /\ last'.op \in {"sync", "clear"}) =>
             /\ last'.ret = kr_error(Errno.EINVAL)
             /\ last'.reads = 0 /\ last'.writes = 0 /\ last'.clears = 0
             /\ last'.syncs = 0 /\ last'.closes = 0
             /\ store' = store
             /\ cache' = cache]_vars

\* a cache that had been opened was closed a second time, to no effect
C11_ClosedTwice ==
    /\ last.op = "close"
    /\ last.closes = 0
    /\ ~cache.db
    /\ cache.ttl_min = KR_CACHE_DEFAULT_TTL_MIN

(***************************************************************************)
(* Statistics and TTL bounds after kr_cache_open (C12).                    *)
(***************************************************************************)
\* a store that holds something and no right version entry
WrongVersionStore(st) ==
    /\ DOMAIN st # {}
    /\ \/ VersionKey \notin DOMAIN st
       \/ st[VersionKey] # RawVal(Encode16(CACHE_VERSION))

OpenedWithDefaults ==
    /\ cache.ttl_min = KR_CACHE_DEFAULT_TTL_MIN
    /\ cache.ttl_max = KR_CACHE_DEFAULT_TTL_MAX

\* C12 (as stated): after every successful kr_cache_open, whatever the store
\* held before, the counters hit, miss, insert and delete are all zero and
\* ttl_min and ttl_max hold their defaults.
C12_OpenZeroStats ==
    (last.op = "open" /\ last.ret = 0) =>
        (cache.stats = ZeroStats /\ OpenedWithDefaults)

\* C12 (amended): after every successful kr_cache_open hit, miss and insert
\* are zero and ttl_min and ttl_max hold their defaults; delete counts the
\* purge of the version check of that open: 0 over an empty store, 1 over a
\* store that held something and no right version entry, never more than 1.
C12_OpenStatsCountPurge ==
    (last.op = "open" /\ last.ret = 0) =>
        /\ cache.stats.hit = 0 /\ cache.stats.miss = 0 /\ cache.stats.insert = 0
        /\ OpenedWithDefaults
        /\ cache.stats.delete = last.clears
        /\ cache.stats.delete \in {0, 1}
        /\ DOMAIN last.info.before = {} => cache.stats.delete = 0
        /\ WrongVersionStore(last.info.before) => cache.stats.delete = 1

\* an open that purged a store of another version and counted the purge
C12_PurgeCounted ==
    /\ last.op = "open" /\ last.ret = 0
    /\ WrongVersionStore(last.info.before)
    /\ UserKey \in DOMAIN last.info.before
    /\ store = VersionOnly
    /\ cache.stats.delete = 1

(***************************************************************************)
(* The statistics counters (C13): one cache that is filled through         *)
(* kr_cache_insert_rr and cache_stash, peeked at for a name that is stored *)
(* and for types that are not, and cleared.                                *)
(***************************************************************************)
InitStats == InitWith({EmptyStore})

StatsRequests ==
    {[q |-> q, sel |-> sel] :
        q \in {BaseQry, [BaseQry EXCEPT !.stype = "DS"],
               [BaseQry EXCEPT !.flags.NO_CACHE = TRUE]},
        sel \in TtlSelected}

NextStats ==
    \/ KrCacheOpen({}, TRUE)
    \/ \E rr \in LifeRRs :
         KrCacheInsertRR(rr, NoSigs, KR_RANK_AUTH, 100, StashEnv({}))
    \/ \E r \in StatsRequests : NewRequest(KR_STATE_PRODUCE, r.q, BaseReq, r.sel)
    \/ CachePeek(PeekEnv({}, NsecFind("none", "covered", 0), 0))
    \/ CacheStash("A", FALSE, StashEnv({}))
    \/ \E F \in {{}, {"clear"}} : KrCacheClear(F)

SpecStats == InitStats /\ [][NextStats]_vars

\* the peek read the backend
PeekConsulted(l) == l.op = "peek" /\ l.reads > 0

\* C13: each cache_peek that consults the cache adds one to hit when it
\* returns an answer from the cache and one to miss when it does not; each
\* RR-set stash writes adds one to insert; each clear adds one to delete.
C13_CountersTrack ==
    [][/\ PeekConsulted(last') =>
             IF last'.state = KR_STATE_DONE
             THEN cache'.stats.hit = cache.stats.hit + 1
             ELSE cache'.stats.miss = cache.stats.miss + 1
       /\ last'.op \in {"stash", "insert_rr"} =>
             cache'.stats.insert = cache.stats.insert + Cardinality(last'.info.keys)
       /\ (last'.op = "clear" /\ cache.db) =>
             cache'.stats.delete = cache.stats.delete + 1]_vars

\* the part of C13 about insert and delete
C13_InsertDeleteTrack ==
    [][/\ last'.op \in {"stash", "insert_rr"} =>
             cache'.stats.insert = cache.stats.insert + Cardinality(last'.info.keys)
       /\ (last'.op = "clear" /\ cache.db) =>
             cache'.stats.delete = cache.stats.delete + 1
       /\ last'.op = "peek" => cache'.stats = cache.stats]_vars

\* a peek answered from the cache with the hit counter still at zero
C13_HitNotCounted ==
    /\ last.op = "peek"
    /\ last.info.path = "exact_hit"
    /\ last.state = KR_STATE_DONE
    /\ last.reads > 0
    /\ cache.stats.hit = 0 /\ cache.stats.miss = 0

(***************************************************************************)
(* The exact-match keys of two names and types (C14).                      *)
(***************************************************************************)
MaxLabels == 2

KeyLabels == {<<97>>, <<122>>, <<97, 122>>, <<97, 0>>}

RECURSIVE NamesUpTo(_)
NamesUpTo(n) ==
    IF n = 0 THEN {<<>>}
    ELSE NamesUpTo(n - 1)
         \cup {<<l>> \o m : l \in KeyLabels, m \in NamesUpTo(n - 1)}

KeyNames == NamesUpTo(MaxLabels)

KeyTypes == {"A", "NS", "CNAME", "DNAME", "DS", "NSEC", "RRSIG", "ANY"}

NameType(name, type) == [name |-> name, type |-> type]

InitKeys ==
    /\ store = EmptyStore
    /\ cache = ClosedCache
    /\ ctx_state = KR_STATE_CONSUME
    /\ qry = Qry(NameRoot, "A", 0)
    /\ req = NoReq
    /\ selected = NoSelected
    /\ pkt = PktOrig
    /\ \E n1 \in KeyNames, n2 \in KeyNames, t1 \in KeyTypes, t2 \in KeyTypes :
         last = [NoCall EXCEPT !.op = "pair",
                               !.info = <<NameType(n1, t1), NameType(n2, t2)>>]

\* the keys of a name and type: with and without the checks for RRs
KeysOf(p) ==
    [maypkt |-> key_exact_type_maypkt(kr_dname_lf(p.name, FALSE), p.type),
     exact |-> key_exact_type(kr_dname_lf(p.name, FALSE), p.type)]

KeyExactTypes ==
    /\ last.op = "pair"
    /\ last' = [last EXCEPT !.op = "keys",
                            !.info = [pairs |-> last.info,
                                      keys |-> <<KeysOf(last.info[1]),
                                                 KeysOf(last.info[2])>>]]
    /\ UNCHANGED <<store, cache, ctx_state, qry, req, selected, pkt>>

NextKeys == KeyExactTypes

SpecKeys == InitKeys /\ [][NextKeys]_vars

\* a name without a zero byte and a type that is neither meta nor RRSIG
Cacheable(p) ==
    /\ \A i \in 1..Len(p.name) : \A j \in 1..Len(p.name[i]) : p.name[i][j] # 0
    /\ p.type \notin {"OPT", "ANY", "RRSIG"}

BothCacheable == last.op = "keys" /\ Cacheable(last.info.pairs[1])
                                  /\ Cacheable(last.info.pairs[2])

\* the same type, or two of NS, CNAME and DNAME
SameSlot(t1, t2) == t1 = t2 \/ {t1, t2} \subseteq {"NS", "CNAME", "DNAME"}

\* C14 (as stated): two distinct cacheable pairs of owner name and RR type
\* have distinct exact-match keys.
C14_KeysDistinct ==
    (BothCacheable /\ last.info.pairs[1] # last.info.pairs[2]) =>
        last.info.keys[1].maypkt # last.info.keys[2].maypkt

\* C14 (amended): the exact-match keys of two cacheable pairs are equal
\* exactly when the names are equal and the types are equal or are two of
\* NS, CNAME and DNAME; key_exact_type gives the same key unless the type is
\* NSEC or NSEC3, for which it gives no key.
C14_KeysDistinctUpToXName ==
    BothCacheable =>
        /\ (last.info.keys[1].maypkt = last.info.keys[2].maypkt) <=>
               /\ last.info.pairs[1].name = last.info.pairs[2].name
               /\ SameSlot(last.info.pairs[1].type, last.info.pairs[2].type)
        /\ \A i \in {1, 2} :
               /\ last.info.keys[i].maypkt # NullKey
               /\ last.info.keys[i].exact =
                     (IF last.info.pairs[i].type \in {"NSEC", "NSEC3"}
                      THEN NullKey ELSE last.info.keys[i].maypkt)

\* the NS and the CNAME of one name under one key
C14_SharedKey ==
    /\ BothCacheable
    /\ last.info.pairs[1] = NameType(NameAZ, "NS")
    /\ last.info.pairs[2] = NameType(NameAZ, "CNAME")
    /\ last.info.keys[1].exact = last.info.keys[2].exact
    /\ last.info.keys[1].exact # NullKey

(***************************************************************************)
(* NSEC records handed to the cache (C15): validated or not, with their    *)
(* signatures or without, through kr_cache_insert_rr and through           *)
(* cache_stash.                                                            *)
(***************************************************************************)
NsecZ == RR(NameZ, "NSEC", 300, "n1")
NsecSig == RRSig(NameZ, "NSEC", 300, 1, NameRoot)

NsecRanks == {KR_RANK_INITIAL, KR_RANK_AUTH, KR_RANK_INSECURE + KR_RANK_AUTH,
              KR_RANK_SECURE, KR_RANK_SECURE + KR_RANK_AUTH}

\* the authority section of an answer: the NSEC, with its RRSIG or without
NsecSelected ==
    {<<<<>>, <<Selected(NsecZ, r)>>, <<>>>> : r \in NsecRanks}
    \cup {<<<<>>, <<Selected(NsecZ, r), Selected(NsecSig, r)>>, <<>>>> : r \in NsecRanks}

NextNsec ==
    \/ KrCacheOpen({}, TRUE)
    \/ \E r \in NsecRanks, sigs \in {NoSigs, NsecSig} :
         KrCacheInsertRR(NsecZ, sigs, r, 100, StashEnv({}))
    \/ \E sel \in NsecSelected : NewRequest(KR_STATE_CONSUME, BaseQry, BaseReq, sel)
    \/ CacheStash("A", FALSE, StashEnv({}))

SpecNsec == InitStash /\ [][NextNsec]_vars

Secure(rank) == (rank \div KR_RANK_SECURE) % 2 = 1

\* whether the selected records hold a validated NSEC and its signatures
SelectedSignedNsec(sel) ==
    \E psec \in 1..3 : \E i, j \in 1..Len(sel[psec]) :
        /\ sel[psec][i].rr.type = "NSEC" /\ Secure(sel[psec][i].rank)
        /\ sel[psec][j].rr.type = "RRSIG" /\ sel[psec][j].rr.covered = "NSEC"
        /\ sel[psec][j].rr.owner = sel[psec][i].rr.owner
        /\ sel[psec][j].rr.ttls # <<>>

\* C15: stash writes an NSEC RR-set only when its rank tests SECURE and a
\* non-empty RRSIG set comes with it; an NSEC that is not SECURE is skipped
\* with an ok result and nothing written; a SECURE NSEC without RRSIGs
\* writes nothing.
C15_NsecGate ==
    [][/\ (last'.op = "insert_rr" /\ last'.info.rr.type = "NSEC") =>
             /\ (store' # store \/ last'.writes > 0) =>
                   /\ Secure(last'.info.rank)
                   /\ ~last'.info.rr_sigs.null
                   /\ last'.info.rr_sigs.ttls # <<>>
             /\ ~Secure(last'.info.rank) =>
                   (last'.ret = kr_ok /\ store' = store /\ last'.writes = 0)
             /\ (Secure(last'.info.rank) /\ last'.info.rr_sigs.null) =>
                   (store' = store /\ last'.writes = 0)
       /\ last'.op = "stash" =>
             /\ (store' # store \/ last'.writes > 0) =>
                   SelectedSignedNsec(last'.info.sel_in)
             /\ ~SelectedSignedNsec(last'.info.sel_in) =>
                   (store' = store /\ last'.writes = 0)]_vars

\* an NSEC of rank INSECURE|AUTH came with its RRSIG and was passed over
C15_UnvalidatedSkipped ==
    /\ last.op = "insert_rr"
    /\ last.info.rr.type = "NSEC"
    /\ last.info.rank = KR_RANK_INSECURE + KR_RANK_AUTH
    /\ ~last.info.rr_sigs.null
    /\ last.ret = kr_ok
    /\ last.info.inserted = 0
    /\ last.info.keys = {}

\* a validated NSEC was written with its RRSIG
C15_SignedWritten ==
    /\ last.op \in {"insert_rr", "stash"}
    /\ last.info.inserted = 1
    /\ \E k \in DOMAIN store : k \in last.info.keys

(***************************************************************************)
(* Requests at time 500 peeking into a cache that holds an NSEC of the     *)
(* root zone and, stored at time 100 or 400 with several ranks, the SOA, a *)
(* wildcard, an NS-set or a CNAME; packets are stashed under the exact     *)
(* key, the SOA key, an NS key and the wildcard key.                       *)
(***************************************************************************)
NameWildZ == <<<<42>>, <<122>>>>

TimedInsert(rr, sigs, rank, time) ==
    [rr |-> rr, sigs |-> sigs, rank |-> rank, time |-> time]

GateInserts ==
    {TimedInsert(NsecZ, NsecSig, KR_RANK_SECURE + KR_RANK_AUTH, 400)}
    \cup {TimedInsert(RR(NameRoot, "SOA", 300, "soa1"), NoSigs, r, t) :
            r \in {KR_RANK_AUTH, KR_RANK_INSECURE + KR_RANK_AUTH}, t \in {100, 400}}
    \cup {TimedInsert(RR(NameAZ, "A", 300, "w1"), RRSig(NameAZ, "A", 300, 1, NameRoot),
                      KR_RANK_INSECURE + KR_RANK_AUTH, 400),
          TimedInsert(RR(NameZ, "NS", 300, "ns1"), NoSigs, KR_RANK_AUTH, 400),
          TimedInsert(RR(NameAZ, "CNAME", 300, "c1"), NoSigs,
                      KR_RANK_INSECURE + KR_RANK_AUTH, 400)}

\* the queries whose answer packets are stashed, and the queries peeked for
GateStashQueries ==
    {Qry(NameRoot, "SOA", 400), Qry(NameWildZ, "A", 400), Qry(NameZ, "NS", 400),
     Qry(NameAZ, "NS", 400), Qry(NameAZ, "A", 100), Qry(NameAZ, "A", 400)}

GatePeekQueries ==
    {[Qry(NameAZ, "A", 500) EXCEPT !.stale_cb = cb] : cb \in {"none", "grant30"}}

GateRequests ==
    {Request(KR_STATE_CONSUME, q, BaseReq) : q \in GateStashQueries}
    \cup {Request(KR_STATE_PRODUCE, q, [BaseReq EXCEPT !.ta_covers = ta]) :
            q \in GatePeekQueries, ta \in BOOLEAN}

GateEnvs == {PeekEnv({}, n, 0) : n \in NsecFinds}

NextGate ==
    \/ KrCacheOpen({}, TRUE)
    \/ \E i \in GateInserts :
         /\ Filling
         /\ KrCacheInsertRR(i.rr, i.sigs, i.rank, i.time, StashEnv({}))
    \/ \E r \in GateRequests : NewRequest(r.state, r.q, r.rq, NoSelected)
    \/ \E env \in GateEnvs : CachePeek(env)
    \/ \E p \in StashedPkts :
         /\ ctx_state = KR_STATE_CONSUME
         /\ CacheStash(qry.stype, FALSE, [StashEnv({}) EXCEPT !.pkt = p])

SpecGate == InitPeek /\ [][NextGate]_vars

(***************************************************************************)
(* The SOA of a denial (C16).                                              *)
(***************************************************************************)
\* the peek returned a denial put together from NSEC records: NXDOMAIN, or
\* NOERROR with an empty answer section
NsecDenial ==
    /\ last.op = "peek"
    /\ last.state = KR_STATE_DONE
    /\ \E i \in 1..Len(pkt.authority) : pkt.authority[i].type = "NSEC"
    /\ pkt.rcode = "NXDOMAIN" \/ (pkt.rcode = "NOERROR" /\ pkt.answer = <<>>)

\* the entry the SOA RR-set s of the packet was made from is stored, is not
\* a packet, is of a rank at or above the floor and has not run out
SoaEntryFit(s) ==
    LET key == key_exact_type(kr_dname_lf(s.owner, FALSE), "SOA")
        now == last.info.qry_in.timestamp
    IN /\ HasEntry(store, key, "SOA")
       /\ ~store[key].ents["SOA"].is_packet
       /\ store[key].ents["SOA"].rank >= last.info.floor
       /\ store[key].ents["SOA"].rank = s.rank
       /\ store[key].ents["SOA"].data.rdata = s.rdata
       /\ s.ttl >= 0
       /\ last.info.qry_in.stale_cb = "none" =>
              /\ store[key].ents["SOA"].time + store[key].ents["SOA"].ttl >= now
              /\ s.ttl = store[key].ents["SOA"].ttl
                           - Max(0, now - store[key].ents["SOA"].time)

\* C16: whenever cache_peek returns DONE with a denial (NXDOMAIN or NODATA)
\* put together from NSEC records, the authority section carries the SOA of
\* a zone enclosing the query name, made from a stored entry that is not a
\* packet, whose rank is at least the floor and whose new TTL is not
\* negative; with the SOA missing, run out, below the floor or a packet the
\* peek does not return such an answer.
C16_DenialCarriesSoa ==
    NsecDenial =>
        \E j \in 1..Len(pkt.authority) :
            /\ pkt.authority[j].type = "SOA"
            /\ IsPrefix(kr_dname_lf(pkt.authority[j].owner, FALSE),
                        kr_dname_lf(last.info.qry_in.sname, FALSE))
            /\ SoaEntryFit(pkt.authority[j])

\* NXDOMAIN was answered from the NSEC and a SOA that has not run out
C16_DenialServed ==
    /\ NsecDenial
    /\ pkt.rcode = "NXDOMAIN"
    /\ last.info.qry_in.stale_cb = "none"
    /\ \E j \in 1..Len(pkt.authority) :
          pkt.authority[j].type = "SOA" /\ pkt.authority[j].ttl = 200

\* the NSEC proved a denial and the SOA was passed over: run out, below the
\* floor, or a packet
C16_SoaRunOut ==
    /\ last.op = "peek" /\ last.info.path = "soa_unfit"
    /\ last.state = KR_STATE_PRODUCE
    /\ store[key_exact_type(<<>>, "SOA")].ents["SOA"].time = 100
    /\ store[key_exact_type(<<>>, "SOA")].ents["SOA"].rank >= last.info.floor

C16_SoaBelowFloor ==
    /\ last.op = "peek" /\ last.info.path = "soa_unfit"
    /\ last.state = KR_STATE_PRODUCE
    /\ store[key_exact_type(<<>>, "SOA")].ents["SOA"].time = 400
    /\ ~store[key_exact_type(<<>>, "SOA")].ents["SOA"].is_packet
    /\ store[key_exact_type(<<>>, "SOA")].ents["SOA"].rank < last.info.floor

C16_SoaPacket ==
    /\ last.op = "peek" /\ last.info.path = "soa_unfit"
    /\ last.state = KR_STATE_PRODUCE
    /\ store[key_exact_type(<<>>, "SOA")].ents["SOA"].is_packet
    /\ store[key_exact_type(<<>>, "SOA")].ents["SOA"].rank >= last.info.floor

C16_SoaMissing ==
    /\ last.op = "peek" /\ last.info.path = "soa_missed"
    /\ last.state = KR_STATE_PRODUCE
    /\ key_exact_type(<<>>, "SOA") \notin DOMAIN store

(***************************************************************************)
(* Packet entries (C17).                                                   *)
(***************************************************************************)
\* the RR-sets of the packet
Served == {pkt.answer[i] : i \in 1..Len(pkt.answer)}
          \cup {pkt.authority[i] : i \in 1..Len(pkt.authority)}

\* the RR-set x was made from a packet entry
FromPacket(x) == x.rdata = "pkt"

\* the packet entry stored for the name and type the query asked for is of
\* a rank at or above the floor and has not run out
ExactPacketFit(x) ==
    LET q == last.info.qry_in
        key == key_exact_type_maypkt(kr_dname_lf(q.sname, FALSE), q.stype)
    IN /\ x.owner = q.sname /\ x.type = q.stype
       /\ HasEntry(store, key, q.stype)
       /\ store[key].ents[q.stype].is_packet
       /\ store[key].ents[q.stype].rank >= last.info.floor
       /\ x.ttl >= 0
       /\ q.stale_cb = "none" =>
              store[key].ents[q.stype].time + store[key].ents[q.stype].ttl
                  >= q.timestamp

\* what closest_NS finds for the query of the last peek in the store
ClosestOfLast ==
    closest_NS(last.info.qry_in, store, kr_dname_lf(last.info.qry_in.sname, FALSE),
               PeekEnv({}, NsecFind("none", "covered", 0), 0),
               [reads |-> 0, cb_calls |-> 0])

\* C17: cache_peek serves a stored packet entry only for the exact query
\* name and type, and only when its new TTL is not negative and its rank is
\* at least the floor; no packet entry is taken as the closest-NS result,
\* as a wildcard answer or as the SOA.
C17_PacketGates ==
    (last.op = "peek" /\ last.info.path # "skipped") =>
        /\ last.state = KR_STATE_DONE =>
               \A x \in Served :
                   /\ FromPacket(x) => (x.src = "packet" /\ ExactPacketFit(x))
                   /\ x.src \in {"wild", "soa", "simple"} => ~FromPacket(x)
        /\ ClosestOfLast.found => ~ClosestOfLast.eh.is_packet

\* the packet stored for the query name and type was served
C17_PacketServed ==
    /\ last.op = "peek" /\ last.state = KR_STATE_DONE
    /\ \E x \in Served : FromPacket(x) /\ x.src = "packet" /\ x.ttl = 200

\* packets passed over: at the NS key of the query name's parent, at the
\* wildcard key, and one that has run out at the exact key
C17_NsPacketPassed ==
    /\ last.op = "peek" /\ last.info.path # "skipped"
    /\ HasEntry(store, key_exact_type(kr_dname_lf(NameZ, FALSE), "NS"), "NS")
    /\ store[key_exact_type(kr_dname_lf(NameZ, FALSE), "NS")].ents["NS"].is_packet
    /\ ~ClosestOfLast.found

C17_WildPacketPassed ==
    /\ last.op = "peek" /\ last.info.path = "wild_miss"
    /\ HasEntry(store, key_exact_type(kr_dname_lf(NameZ, TRUE), "A"), "A")
    /\ store[key_exact_type(kr_dname_lf(NameZ, TRUE), "A")].ents["A"].is_packet
    /\ store[key_exact_type(kr_dname_lf(NameZ, TRUE), "A")].ents["A"].rank
           >= last.info.floor

C17_ExactPacketRunOut ==
    /\ last.op = "peek" /\ last.state # KR_STATE_DONE
    /\ last.info.qry_in.stale_cb = "none"
    /\ HasEntry(store, UserKey, "A")
    /\ store[UserKey].ents["A"].is_packet
    /\ store[UserKey].ents["A"].time = 100
    /\ store[UserKey].ents["A"].rank >= last.info.floor

(***************************************************************************)
(* kr_cache_peek_exact (C18) over RR-sets of several ranks and ages, an    *)
(* NS-set and a CNAME under one key, and packets.                          *)
(***************************************************************************)
ExactInserts ==
    {TimedInsert(RR(NameAZ, "A", 300, "a1"), NoSigs, r, 100) :
        r \in {KR_RANK_INITIAL, KR_RANK_AUTH, KR_RANK_BOGUS + KR_RANK_AUTH}}
    \cup {TimedInsert(RR(NameZ, "NS", 300, "ns1"), NoSigs, KR_RANK_AUTH, 100),
          TimedInsert(RR(NameZ, "CNAME", 3, "c1"), NoSigs, KR_RANK_INITIAL, 100),
          TimedInsert(NsecZ, NsecSig, KR_RANK_SECURE + KR_RANK_AUTH, 100)}

ExactNames == {NameAZ, NameZ, NameZero}
ExactTypes == {"A", "NS", "CNAME", "DNAME", "NSEC", "RRSIG", "ANY"}
ExactSteps == {"lf", "read", "seek"}

NextExact ==
    \/ KrCacheOpen({}, TRUE)
    \/ \E i \in ExactInserts :
         /\ Filling
         /\ KrCacheInsertRR(i.rr, i.sigs, i.rank, i.time, StashEnv({}))
    \/ \E q \in {Qry(NameAZ, "A", 100), Qry(NameZ, "NS", 100)} :
         NewRequest(KR_STATE_CONSUME, q, BaseReq, NoSelected)
    \/ \E p \in StashedPkts :
         CacheStash(qry.stype, FALSE, [StashEnv({}) EXCEPT !.pkt = p])
    \/ \E name \in ExactNames, type \in ExactTypes, F \in OneOf(ExactSteps) :
         KrCachePeekExact(name, type, F)

SpecExact == InitPeek /\ [][NextExact]_vars

\* the call was refused for its type or name
ExactUnsupported ==
    \/ last.info.type \in {"OPT", "ANY", "RRSIG"}
    \/ \E i \in 1..Len(last.info.name) :
          \E j \in 1..Len(last.info.name[i]) : last.info.name[i][j] = 0

ExactKey == Lf(last.info.name) \o <<0, 69>>
            \o Encode16(RRTypeCode[IF last.info.type \in {"CNAME", "DNAME"}
                                   THEN "NS" ELSE last.info.type])

\* an entry of the type is stored under the key
ExactStored ==
    /\ ExactKey \in DOMAIN store
    /\ store[ExactKey].kind = "entries"
    /\ last.info.type \in DOMAIN store[ExactKey].ents

ExactEntry == store[ExactKey].ents[last.info.type]

\* absent, inconsistent (a BOGUS rank or the opt-out flag on an RR entry),
\* or a packet
ExactNoEntry ==
    \/ ~ExactStored
    \/ ExactEntry.is_packet
    \/ ExactEntry.rank \in {KR_RANK_BOGUS, KR_RANK_BOGUS + KR_RANK_AUTH}
    \/ ExactEntry.has_optout

\* *peek holds the stored time, TTL and rank
ExactCopied ==
    /\ last.info.peek.set
    /\ last.info.peek.time = ExactEntry.time
    /\ last.info.peek.ttl = ExactEntry.ttl
    /\ last.info.peek.rank = ExactEntry.rank

\* C18 (as stated): kr_cache_peek_exact returns ENOTSUP for a meta-type,
\* RRSIG or a name with a zero byte, ENOENT when the entry is absent,
\* inconsistent or a packet, and otherwise ok with the stored time, TTL
\* and rank, whatever the age and the rank of the entry.
C18_ThreeOutcomes ==
    last.op = "peek_exact" =>
        IF ExactUnsupported THEN last.ret = kr_error(Errno.ENOTSUP)
        ELSE IF last.info.type \in {"NSEC", "NSEC3"} THEN last.ret # kr_ok
        ELSE IF ExactNoEntry THEN last.ret = kr_error(Errno.ENOENT)
        ELSE last.ret = kr_ok /\ ExactCopied

\* C18 (amended): the same when no step of the look-up fails and the type
\* is neither NSEC nor NSEC3; a failure of the name conversion, of the
\* backend read or of entry_h_seek is returned as that error, and for NSEC
\* and NSEC3 the look-up fails; in no case is a packet entry handed out.
C18_OutcomesOrError ==
    last.op = "peek_exact" =>
        /\ IF ExactUnsupported THEN last.ret = kr_error(Errno.ENOTSUP)
           ELSE IF last.info.F # {} \/ last.info.type \in {"NSEC", "NSEC3"}
           THEN last.ret < 0 /\ last.ret # kr_error(Errno.ENOTSUP)
           ELSE IF ExactNoEntry THEN last.ret = kr_error(Errno.ENOENT)
           ELSE last.ret = kr_ok /\ ExactCopied
        /\ last.ret = kr_ok <=> last.info.peek.set
        /\ last.info.peek.set => (ExactStored /\ ~ExactEntry.is_packet /\ ExactCopied)

\* an RR-set of rank INITIAL was handed out with its stored TTL and time
C18_LowRankHandedOut ==
    /\ last.op = "peek_exact" /\ last.ret = kr_ok
    /\ last.info.peek.set
    /\ last.info.peek.rank = KR_RANK_INITIAL
    /\ last.info.peek.ttl = KR_CACHE_DEFAULT_TTL_MIN
    /\ last.info.type = "CNAME"

\* the entry is stored and fit, the backend read failed
C18_ReadFailed ==
    /\ last.op = "peek_exact" /\ last.ret = kr_error(Errno.EIO)
    /\ ~ExactUnsupported /\ last.info.type \notin {"NSEC", "NSEC3"}
    /\ ~ExactNoEntry

C18_PacketRefused ==
    /\ last.op = "peek_exact" /\ last.ret = kr_error(Errno.ENOENT)
    /\ last.info.F = {}
    /\ ExactStored /\ ExactEntry.is_packet

C18_BogusRefused ==
    /\ last.op = "peek_exact" /\ last.ret = kr_error(Errno.ENOENT)
    /\ last.info.F = {}
    /\ ExactStored /\ ~ExactEntry.is_packet
    /\ ExactEntry.rank = KR_RANK_BOGUS + KR_RANK_AUTH

(***************************************************************************)
(* closest_NS (C19, C20): requests at time 500 for a.z, type A or DS, over *)
(* caches holding NS-sets, CNAMEs and DNAMEs of a.z, z and the root, of    *)
(* several ranks, stored at time 100 or 400, and packets under NS keys.    *)
(***************************************************************************)
CutInserts ==
    {TimedInsert(RR(NameAZ, "NS", 300, "ns2"), NoSigs, KR_RANK_AUTH, t) : t \in {100, 400}}
    \cup {TimedInsert(RR(NameAZ, "CNAME", 300, "c1"), NoSigs, r, 400) :
            r \in {KR_RANK_AUTH, KR_RANK_INSECURE + KR_RANK_AUTH}}
    \cup {TimedInsert(RR(NameZ, "NS", 300, "ns1"), NoSigs, r, 400) :
            r \in {KR_RANK_INITIAL, KR_RANK_AUTH, KR_RANK_BOGUS + KR_RANK_AUTH}}
    \cup {TimedInsert(RR(n, "DNAME", 300, "d1"), NoSigs, KR_RANK_INSECURE + KR_RANK_AUTH, 400) :
            n \in {NameAZ, NameZ}}
    \cup {TimedInsert(RR(NameZ, "DNAME", 300, "d1"), NoSigs, KR_RANK_AUTH, 400),
          TimedInsert(RR(NameRoot, "NS", 300, "ns0"), NoSigs, KR_RANK_AUTH, 400)}

CutRequests ==
    {Request(KR_STATE_CONSUME, Qry(n, "NS", 400), BaseReq) : n \in {NameAZ, NameZ}}
    \cup {Request(KR_STATE_PRODUCE,
                  [Qry(NameAZ, t, 500) EXCEPT !.stale_cb = cb], BaseReq) :
            t \in {"A", "DS"}, cb \in {"none", "grant30"}}

CutEnvs == {PeekEnv(F, NsecFind("none", "covered", 0), 0) :
               F \in {{}, {"ns_read"}, {"seek"}}}

NextCut ==
    \/ KrCacheOpen({}, TRUE)
    \/ \E i \in CutInserts :
         /\ Filling
         /\ KrCacheInsertRR(i.rr, i.sigs, i.rank, i.time, StashEnv({}))
    \/ \E r \in CutRequests : NewRequest(r.state, r.q, r.rq, NoSelected)
    \/ \E env \in CutEnvs : CachePeek(env)
    \/ \E p \in StashedPkts :
         /\ ctx_state = KR_STATE_CONSUME
         /\ CacheStash(qry.stype, FALSE, [StashEnv({}) EXCEPT !.pkt = p])

SpecCut == InitPeek /\ [][NextCut]_vars

\* the suffixes of a name, the name itself first
RECURSIVE Suffixes(_)
Suffixes(n) == IF n = <<>> THEN <<n>> ELSE <<n>> \o Suffixes(Tail(n))

NsKey(n) == Lf(n) \o <<0, 69>> \o Encode16(RRTypeCode["NS"])

\* the sub-entry of the type stored at the name
SubEntry(n, t) == store[NsKey(n)].ents[t]

\* whether the search takes up the type at the name: NS unless the name is
\* the query name and the type asked for is DS, CNAME at the query name,
\* DNAME at the shorter names
Eligible(q, n, t) ==
    CASE t = "NS" -> ~(n = q.sname /\ q.stype = "DS")
      [] t = "CNAME" -> n = q.sname
      [] OTHER -> n # q.sname

\* fit: not run out (or granted a TTL by the stale callback), no packet,
\* and for CNAME and DNAME a rank of at least INSECURE|AUTH
Fit(q, n, t) ==
    /\ NsKey(n) \in DOMAIN store
    /\ store[NsKey(n)].kind = "entries"
    /\ t \in DOMAIN store[NsKey(n)].ents
    /\ Eligible(q, n, t)
    /\ \/ SubEntry(n, t).time + SubEntry(n, t).ttl >= q.timestamp
       \/ q.stale_cb = "grant30"
    /\ ~SubEntry(n, t).is_packet
    /\ (t = "NS" \/ SubEntry(n, t).rank >= KR_RANK_INSECURE + KR_RANK_AUTH)

FitTypes(q, n) == {t \in {"NS", "CNAME", "DNAME"} : Fit(q, n, t)}

FirstFit(q, n) == IF "NS" \in FitTypes(q, n) THEN "NS"
                  ELSE IF "CNAME" \in FitTypes(q, n) THEN "CNAME" ELSE "DNAME"

\* the position of the longest suffix with a fit sub-entry, 0 when none
RECURSIVE LongestFit(_, _, _)
LongestFit(q, sfx, i) ==
    IF i > Len(sfx) THEN 0
    ELSE IF FitTypes(q, sfx[i]) # {} THEN i
    ELSE LongestFit(q, sfx, i + 1)

CutOfLast == last.op = "peek" /\ last.info.path # "skipped"
             /\ last.info.path # "exact_hit"

\* C19: closest_NS returns the first fit sub-entry at the longest suffix of
\* the query name that has one, with its type and the length of the lookup
\* format of that suffix, and never an entry that has run out or a packet.
C19_LongestFitSuffix ==
    CutOfLast =>
        LET q == last.info.qry_in
            sfx == Suffixes(q.sname)
            at == LongestFit(q, sfx, 1)
        IN IF at = 0 THEN ~ClosestOfLast.found
           ELSE /\ ClosestOfLast.found
                /\ ClosestOfLast.zname = sfx[at]
                /\ ClosestOfLast.zlf_len = Len(Lf(sfx[at]))
                /\ ClosestOfLast.type = FirstFit(q, sfx[at])
                /\ ClosestOfLast.eh = SubEntry(sfx[at], FirstFit(q, sfx[at]))

\* the part of C19 that holds: what closest_NS returns is a fit sub-entry
\* of a suffix of the query name, reported with its type and length, and
\* no longer suffix has a fit sub-entry unless the first sub-entry stored
\* there is of rank BOGUS
C19_FoundIsFit ==
    CutOfLast =>
        LET q == last.info.qry_in
            sfx == Suffixes(q.sname)
            c == ClosestOfLast
        IN /\ c.found =>
                /\ \E i \in 1..Len(sfx) :
                      /\ c.zname = sfx[i]
                      /\ c.zlf_len = Len(Lf(sfx[i]))
                      /\ Fit(q, sfx[i], c.type)
                      /\ c.eh = SubEntry(sfx[i], c.type)
                      /\ \A j \in 1..(i - 1) :
                            FitTypes(q, sfx[j]) # {} =>
                                ~entry_h_consistent(FirstEntry(store[NsKey(sfx[j])]))
                /\ ~c.eh.is_packet
           /\ ~c.found =>
                \A j \in 1..Len(sfx) :
                    FitTypes(q, sfx[j]) # {} =>
                        ~entry_h_consistent(FirstEntry(store[NsKey(sfx[j])]))

\* the NS-set of z is of rank BOGUS, the DNAME of z is fit, and closest_NS
\* passes over both
C19_BogusHidesDname ==
    /\ CutOfLast
    /\ Fit(last.info.qry_in, NameZ, "DNAME")
    /\ Fit(last.info.qry_in, NameZ, "NS")
    /\ SubEntry(NameZ, "NS").rank = KR_RANK_BOGUS + KR_RANK_AUTH
    /\ ~ClosestOfLast.found
    /\ last.info.path = "miss"

\* the names closest_NS reads a consistent value for: the suffixes of the
\* query name down to the one it stops at
Visited(q) ==
    {n \in {Suffixes(q.sname)[i] : i \in 1..Len(Suffixes(q.sname))} :
        /\ Len(n) >= Len(ClosestOfLast.zname)
        /\ NsKey(n) \in DOMAIN store
        /\ store[NsKey(n)].kind = "entries"
        /\ entry_h_consistent(FirstEntry(store[NsKey(n)]))}

\* the types the loop takes up at the name, in the order it does
Examined(q, n) ==
    SelectSeq(TypeOrder,
              LAMBDA t : NSConsiders(store[NsKey(n)], t, n = q.sname, q.stype))

InSeq(t, s) == \E i \in 1..Len(s) : s[i] = t

TypeRank(t) == CASE t = "NS" -> 1 [] t = "CNAME" -> 2 [] OTHER -> 3

\* NS before CNAME before DNAME, in what is examined and in what is found
NsCnameDname(q) ==
    /\ \A n \in Visited(q) : \A i, j \in 1..Len(Examined(q, n)) :
          i < j => TypeRank(Examined(q, n)[i]) < TypeRank(Examined(q, n)[j])
    /\ ClosestOfLast.found =>
          \A t \in {"NS", "CNAME", "DNAME"} :
              TypeRank(t) < TypeRank(ClosestOfLast.type)
                  => ~Fit(q, ClosestOfLast.zname, t)

\* C20: at each name closest_NS visits, the sub-entries are examined in the
\* order NS, CNAME, DNAME; the CNAME only when the name is the query name and
\* the type asked for is not DS, the DNAME only when the name is not the
\* query name.
C20_OrderCnameNotForDs ==
    CutOfLast =>
        LET q == last.info.qry_in
        IN /\ NsCnameDname(q)
           /\ \A n \in Visited(q) :
                 /\ InSeq("CNAME", Examined(q, n)) => n = q.sname /\ q.stype # "DS"
                 /\ InSeq("DNAME", Examined(q, n)) => n # q.sname
           /\ ClosestOfLast.found /\ ClosestOfLast.type = "CNAME"
                 => ClosestOfLast.zname = q.sname /\ q.stype # "DS"
           /\ ClosestOfLast.found /\ ClosestOfLast.type = "DNAME"
                 => ClosestOfLast.zname # q.sname

\* C20 as the code has it: the order is NS, CNAME, DNAME; the NS sub-entry
\* is passed over when the name is the query name and the type asked for is
\* DS; the CNAME sub-entry is examined exactly when the name is the query
\* name, whatever the type asked for, DS included; the DNAME sub-entry is
\* examined exactly when the name is not the query name.
C20_OrderCnameAlsoForDs ==
    CutOfLast =>
        LET q == last.info.qry_in
        IN /\ NsCnameDname(q)
           /\ \A n \in Visited(q) :
                 /\ InSeq("NS", Examined(q, n)) <=>
                       /\ "NS" \in DOMAIN store[NsKey(n)].ents
                       /\ ~(n = q.sname /\ q.stype = "DS")
                 /\ InSeq("CNAME", Examined(q, n)) <=>
                       "CNAME" \in DOMAIN store[NsKey(n)].ents /\ n = q.sname
                 /\ InSeq("DNAME", Examined(q, n)) <=>
                       "DNAME" \in DOMAIN store[NsKey(n)].ents /\ n # q.sname
           /\ ClosestOfLast.found /\ ClosestOfLast.type = "CNAME"
                 => ClosestOfLast.zname = q.sname
           /\ ClosestOfLast.found /\ ClosestOfLast.type = "DNAME"
                 => ClosestOfLast.zname # q.sname

\* a request for the DS of a.z is answered by the CNAME of a.z
C20_CnameForDs ==
    /\ CutOfLast
    /\ last.info.qry_in.stype = "DS"
    /\ last.info.qry_in.sname = NameAZ
    /\ NameAZ \in Visited(last.info.qry_in)
    /\ InSeq("CNAME", Examined(last.info.qry_in, NameAZ))
    /\ ClosestOfLast.found
    /\ ClosestOfLast.type = "CNAME"
    /\ ClosestOfLast.zname = NameAZ
    /\ last.state = KR_STATE_DONE

\* at the query name the fit NS-set is found before the fit CNAME
C20_NsBeforeCname ==
    /\ CutOfLast
    /\ Fit(last.info.qry_in, NameAZ, "NS")
    /\ Fit(last.info.qry_in, NameAZ, "CNAME")
    /\ ClosestOfLast.found
    /\ ClosestOfLast.type = "NS"
    /\ ClosestOfLast.zname = NameAZ

\* whether the first name is the second with labels put before it
ProperSuffix(z, n) ==
    /\ Len(z) < Len(n)
    /\ z = SubSeq(n, Len(n) - Len(z) + 1, Len(n))

\* C21: for a request of type DS closest_NS never returns the NS sub-entry
\* stored at the query name itself; an NS result for a DS request belongs
\* to a name strictly shorter than the query name.
C21_DsFromParentSide ==
    (CutOfLast /\ last.info.qry_in.stype = "DS"
        /\ ClosestOfLast.found /\ ClosestOfLast.type = "NS")
    => /\ ClosestOfLast.zname # last.info.qry_in.sname
       /\ ProperSuffix(ClosestOfLast.zname, last.info.qry_in.sname)

\* the NS-set of a.z is stored and has not run out, the DS of a.z is asked
\* for, and closest_NS returns the NS-set of z
C21_ParentNsForDs ==
    /\ CutOfLast
    /\ last.info.qry_in.stype = "DS"
    /\ last.info.qry_in.stale_cb = "none"
    /\ last.info.qry_in.sname = NameAZ
    /\ NsKey(NameAZ) \in DOMAIN store
    /\ "NS" \in DOMAIN store[NsKey(NameAZ)].ents
    /\ SubEntry(NameAZ, "NS").time + SubEntry(NameAZ, "NS").ttl >= 500
    /\ ClosestOfLast.found
    /\ ClosestOfLast.type = "NS"
    /\ ClosestOfLast.zname = NameZ

\* what closest_NS finds for the query of the last peek when the steps of
\* F fail
ClosestUnder(F) ==
    closest_NS(last.info.qry_in, store, kr_dname_lf(last.info.qry_in.sname, FALSE),
               PeekEnv(F, NsecFind("none", "covered", 0), 0),
               [reads |-> 0, cb_calls |-> 0])

CutFaults == {{}, {"ns_read"}, {"seek"}}

\* C22: closest_NS ends for every query name and every content of the
\* cache: every pass of its loop that finds nothing fit takes one label
\* off, so it reads at most (number of labels + 1) NS keys, and at the root
\* without a fit it returns an empty value with type NS and length 0.
C22_OneLabelPerRead ==
    CutOfLast =>
        \A F \in CutFaults :
            LET c == ClosestUnder(F)
                labels == Len(last.info.qry_in.sname)
            IN /\ c.reads >= 1
               /\ c.reads <= labels + 1
               /\ ("ns_read" \notin F \/ c.found)
                     => c.reads = labels - Len(c.zname) + 1
               /\ (~c.found /\ "ns_read" \notin F)
                     => /\ c.zname = <<>>
                        /\ c.type = "NS"
                        /\ c.zlf_len = 0

\* nothing fit is stored for a.z, z or the root, and closest_NS comes to
\* the root by three reads
C22_RootAfterThreeReads ==
    /\ CutOfLast
    /\ last.info.qry_in.sname = NameAZ
    /\ NsKey(NameAZ) \in DOMAIN store
    /\ NsKey(NameZ) \in DOMAIN store
    /\ ~ClosestOfLast.found
    /\ ClosestOfLast.reads = 3
    /\ ClosestOfLast.type = "NS"
    /\ ClosestOfLast.zlf_len = 0

\* the steps of closest_NS and of answer_simple_hit that may fail
CutAnswerFaults == CutFaults \cup {{"renew"}, {"e2a"}, {"append"}}

\* the environment in which the steps of F fail and the NSEC assembler
\* finds the name covered
DenialEnv(F) == PeekEnv(F, NsecFind("PKT_NXDOMAIN", "covered", 0), 0)

\* what cache_peek does with the request of the last peek in that
\* environment, and what its closest_NS returns
PeekUnder(F) ==
    cache_peek(last.info.state_in, last.info.qry_in, req, cache, store,
               last.info.pkt_in, DenialEnv(F))

CutUnder(F) ==
    closest_NS(last.info.qry_in, store, kr_dname_lf(last.info.qry_in.sname, FALSE),
               DenialEnv(F), [reads |-> 1, cb_calls |-> 0])

\* the paths of a peek that ends before step 1b
BeforeCut == {"skipped", "stype_nsec", "zero_label", "lf_error", "exact_error",
              "exact_hit"}

\* C23: after the miss of the exact match, a CNAME found by closest_NS at
\* the query name is answered and the peek returns DONE with no NSEC proof
\* tried; a DNAME found makes the peek return the caller's state with no
\* answer built; only a result of type NS leads on to the assembly of the
\* negative proof.  (Where answer_simple_hit fails the peek returns the
\* caller's state, again with no NSEC proof tried.)
C23_CutDispatch ==
    last.op = "peek" =>
        \A F \in CutAnswerFaults :
            LET r == PeekUnder(F)
                c == CutUnder(F)
            IN r.path \notin BeforeCut =>
                CASE c.found /\ c.type = "CNAME" ->
                        /\ c.zname = last.info.qry_in.sname
                        /\ r.reads = c.reads
                        /\ IF F \cap {"renew", "e2a", "append"} = {}
                           THEN /\ r.path = "cname"
                                /\ r.state = KR_STATE_DONE
                                /\ Len(r.pkt.answer) = 1
                                /\ r.pkt.answer[1].type = "CNAME"
                                /\ r.pkt.answer[1].owner = last.info.qry_in.sname
                           ELSE /\ r.path = "cname_error"
                                /\ r.state = last.info.state_in
                  [] c.found /\ c.type = "DNAME" ->
                        /\ r.path = "dname"
                        /\ r.reads = c.reads
                        /\ r.state = last.info.state_in
                        /\ r.pkt = last.info.pkt_in
                        /\ r.qry.flags = [last.info.qry_in.flags EXCEPT !.CACHE_TRIED = TRUE]
                  [] OTHER ->
                        /\ c.type = "NS"
                        /\ r.path \notin {"cname", "cname_error", "dname"}
                        /\ r.reads >= c.reads

\* the CNAME of a.z is found for a request of type A and answered
C23_CnameAnswered ==
    /\ last.op = "peek"
    /\ last.info.path = "cname"
    /\ last.info.qry_in.stype = "A"
    /\ ClosestOfLast.found
    /\ ClosestOfLast.type = "CNAME"
    /\ last.state = KR_STATE_DONE
    /\ last.reads = ClosestOfLast.reads + 1
    /\ pkt.answer[1].type = "CNAME"

\* the DNAME of z is found and the peek declines
C23_DnameDeclined ==
    /\ last.op = "peek"
    /\ last.info.path = "dname"
    /\ ClosestOfLast.found
    /\ ClosestOfLast.type = "DNAME"
    /\ last.state = last.info.state_in
    /\ pkt = last.info.pkt_in

(***************************************************************************)
(* Wildcard expansion (C24).  The cache is opened on a store that an       *)
(* earlier run left with the signed NSEC of the zone; wildcard RR-sets of  *)
(* *.z of type A and CNAME (RRSIG labels = 1) and packets under the        *)
(* wildcard key are added; a.z is asked for while the NSEC assembler       *)
(* proves it covered and z its closest encloser.                           *)
(***************************************************************************)
WildCache == [db |-> TRUE, has_sync |-> TRUE,
              ttl_min |-> KR_CACHE_DEFAULT_TTL_MIN,
              ttl_max |-> KR_CACHE_DEFAULT_TTL_MAX, stats |-> ZeroStats]

WildBase ==
    stash_rrset(VersionOnly, WildCache, NsecZ, NsecSig, 400,
                KR_RANK_SECURE + KR_RANK_AUTH, StashEnv({})).store

InitWild == InitWith({WildBase})

WildInserts ==
    {TimedInsert(RR(NameAZ, "A", 300, "w1"), RRSig(NameAZ, "A", 300, 1, NameRoot), r, 400) :
        r \in {KR_RANK_AUTH, KR_RANK_INSECURE + KR_RANK_AUTH, KR_RANK_BOGUS + KR_RANK_AUTH}}
    \cup {TimedInsert(RR(NameAZ, t, 300, "w1"), RRSig(NameAZ, t, 300, 1, NameRoot),
                      KR_RANK_INSECURE + KR_RANK_AUTH, 100) : t \in {"A", "CNAME"}}
    \cup {TimedInsert(RR(NameAZ, "CNAME", 300, "w2"), RRSig(NameAZ, "CNAME", 300, 1, NameRoot),
                      KR_RANK_INSECURE + KR_RANK_AUTH, 400),
          TimedInsert(RR(NameRoot, "SOA", 300, "soa1"), NoSigs,
                      KR_RANK_INSECURE + KR_RANK_AUTH, 400)}

WildRequests ==
    {Request(KR_STATE_CONSUME, Qry(NameWildZ, "A", 400), BaseReq)}
    \cup {Request(KR_STATE_PRODUCE, Qry(NameAZ, t, 500), [BaseReq EXCEPT !.ta_covers = ta]) :
            t \in {"A", "CNAME"}, ta \in BOOLEAN}

WildEnv(F) == PeekEnv(F, NsecFind("PKT_NXDOMAIN", "wild", 1), 0)

WildFaults == {{}, {"wild_read"}, {"e2a"}}

NextWild ==
    \/ KrCacheOpen({}, TRUE)
    \/ \E i \in WildInserts :
         /\ Filling
         /\ KrCacheInsertRR(i.rr, i.sigs, i.rank, i.time, StashEnv({}))
    \/ \E r \in WildRequests : NewRequest(r.state, r.q, r.rq, NoSelected)
    \/ \E F \in WildFaults : CachePeek(WildEnv(F))
    \/ \E p \in StashedPkts :
         /\ ctx_state = KR_STATE_CONSUME
         /\ CacheStash(qry.stype, FALSE, [StashEnv({}) EXCEPT !.pkt = p])

SpecWild == InitWild /\ [][NextWild]_vars

\* what cache_peek does with the request of the last peek when no step
\* fails
WildPeek ==
    cache_peek(last.info.state_in, last.info.qry_in, req, cache, store,
               last.info.pkt_in, WildEnv({}))

\* the key of the wildcard under the closest encloser z, and its entry
WildKey(t) == key_exact_type(kr_dname_lf(NameZ, TRUE), t)

WildEntry(t) == store[WildKey(t)].ents[t]

\* fit: stored, not run out, of a rank at or above the floor, no packet
WildFit(q, floor, t) ==
    /\ HasEntry(store, WildKey(t), t)
    /\ WildEntry(t).time + WildEntry(t).ttl >= q.timestamp
    /\ WildEntry(t).rank >= floor
    /\ ~WildEntry(t).is_packet

WildTypes(q) == IF q.stype = "CNAME" THEN <<"CNAME">> ELSE <<q.stype, "CNAME">>

\* the paths of a peek that came to the wildcard step
WildPaths == {"synthesized", "wild_miss", "wild_error", "soa_missed", "soa_unfit",
              "soa_error", "write_error"}

\* the answer is the wildcard entry of the type under the query name
ExpandedFrom(r, q, t) ==
    /\ r.state = KR_STATE_DONE
    /\ r.pkt.rcode = "NOERROR"
    /\ Len(r.pkt.answer) = 1
    /\ r.pkt.answer[1].owner = q.sname
    /\ r.pkt.answer[1].type = t
    /\ r.pkt.answer[1].src = "wild"
    /\ r.pkt.answer[1].rdata = WildEntry(t).data.rdata
    /\ r.pkt.answer[1].rank = WildEntry(t).rank

FirstFitWins(r, q) ==
    LET types == WildTypes(q)
        fits == {i \in 1..Len(types) : WildFit(q, r.floor, types[i])}
    IN IF fits # {}
       THEN ExpandedFrom(r, q, types[CHOOSE i \in fits : \A j \in fits : i <= j])
       ELSE /\ r.state = last.info.state_in
            /\ r.pkt = last.info.pkt_in

\* C24: the wildcard step tries the type asked for and then CNAME (CNAME
\* once when it is the type asked for); the first fit entry (not run out,
\* rank at or above the floor, no packet) is expanded under the query name
\* and makes the answer NOERROR; with no fit entry the peek returns the
\* caller's state.
C24_FirstFitWildcard ==
    (last.op = "peek" /\ WildPeek.path \in WildPaths)
        => FirstFitWins(WildPeek, last.info.qry_in)

\* the part of C24 that holds: the same where no wildcard entry that is
\* tried is of rank BOGUS
C24_FirstFitUnlessBogus ==
    (/\ last.op = "peek"
     /\ WildPeek.path \in WildPaths
     /\ \A i \in 1..Len(WildTypes(last.info.qry_in)) :
           HasEntry(store, WildKey(WildTypes(last.info.qry_in)[i]),
                    WildTypes(last.info.qry_in)[i])
               => entry_h_consistent(WildEntry(WildTypes(last.info.qry_in)[i])))
        => FirstFitWins(WildPeek, last.info.qry_in)

\* the wildcard A of rank BOGUS is stored and has not run out, and the
\* peek for a.z A returns DONE with NXDOMAIN
C24_BogusWildcardDenied ==
    /\ last.op = "peek"
    /\ last.info.path = "synthesized"
    /\ last.info.qry_in.stype = "A"
    /\ HasEntry(store, WildKey("A"), "A")
    /\ WildEntry("A").rank = KR_RANK_BOGUS + KR_RANK_AUTH
    /\ WildEntry("A").time + WildEntry("A").ttl >= last.info.qry_in.timestamp
    /\ last.state = KR_STATE_DONE
    /\ pkt.rcode = "NXDOMAIN"
    /\ pkt.answer = <<>>

\* behind the wildcard A of rank BOGUS the fit wildcard CNAME is not tried
C24_CnameNotTried ==
    /\ last.op = "peek"
    /\ last.info.path = "soa_missed"
    /\ last.info.qry_in.stype = "A"
    /\ HasEntry(store, WildKey("A"), "A")
    /\ WildEntry("A").rank = KR_RANK_BOGUS + KR_RANK_AUTH
    /\ WildFit(last.info.qry_in, last.info.floor, "CNAME")
    /\ last.state = last.info.state_in

\* the wildcard A is unfit and the fit wildcard CNAME is expanded
C24_CnameExpanded ==
    /\ last.op = "peek"
    /\ last.info.path = "synthesized"
    /\ last.info.qry_in.stype = "A"
    /\ HasEntry(store, WildKey("A"), "A")
    /\ ~WildFit(last.info.qry_in, last.info.floor, "A")
    /\ ExpandedFrom([state |-> last.state, pkt |-> pkt], last.info.qry_in, "CNAME")

(***************************************************************************)
(* The TTL stored (C25): RR-sets of one and of two records, with TTLs      *)
(* below ttl_min, between the bounds and above ttl_max, with and without   *)
(* signatures of a smaller or a greater TTL, inserted or stashed.          *)
(***************************************************************************)
ClampTtls == {<<3>>, <<300>>, <<600000>>, <<300, 100>>, <<700000, 600000>>}

ClampSigs == {NoSigs} \cup {RRSig(NameAZ, "A", t, 2, NameRoot) : t \in {2, 200, 650000}}

ClampInserts ==
    {[rr |-> [RR(n, "A", 0, "a1") EXCEPT !.ttls = tt], sigs |-> sigs,
      rank |-> KR_RANK_INSECURE + KR_RANK_AUTH, time |-> 100] :
        n \in {NameAZ}, tt \in ClampTtls, sigs \in ClampSigs}
    \cup {[rr |-> [RR(NameZ, "NS", 0, "ns1") EXCEPT !.ttls = tt], sigs |-> NoSigs,
           rank |-> KR_RANK_AUTH, time |-> 100] : tt \in ClampTtls}

ClampSelected ==
    {<<<<Selected(sig, KR_RANK_INSECURE + KR_RANK_AUTH),
         Selected([RR(NameAZ, "A", 0, "a1") EXCEPT !.ttls = tt],
                  KR_RANK_INSECURE + KR_RANK_AUTH)>>,
       <<>>, <<>>>> :
        sig \in ClampSigs \ {NoSigs}, tt \in {<<3>>, <<600000>>, <<300, 100>>}}

NextClamp ==
    \/ KrCacheOpen({}, TRUE)
    \/ \E i \in ClampInserts :
         KrCacheInsertRR(i.rr, i.sigs, i.rank, i.time, StashEnv({}))
    \/ \E sel \in ClampSelected :
         NewRequest(KR_STATE_PRODUCE, Qry(NameAZ, "A", 100), BaseReq, sel)
    \/ CacheStash("A", FALSE, StashEnv({}))

SpecClamp == InitTtl /\ [][NextClamp]_vars

Clamp(m, lo, hi) == IF m < lo THEN lo ELSE IF m > hi THEN hi ELSE m

\* the entry the RR-set s was written as
EntryOf(s) ==
    store[key_exact_type(kr_dname_lf(s.rr.owner, FALSE), s.rr.type)].ents[s.rr.type]

C25_SigTtlRaised ==
    \E s \in Stashed :
        /\ last.op = "stash"
        /\ ~s.rr_sigs.null
        /\ LeastTtl(s.rr, s.rr_sigs) = 2
        /\ LeastTtl(s.rr, NoSigs) > 2
        /\ EntryOf(s).ttl = KR_CACHE_DEFAULT_TTL_MIN

(***************************************************************************)
(* The write of one entry, statement by statement (C26): stash_rrset has   *)
(* got room for the entry from entry_h_splice; it stores time, ttl and     *)
(* rank, then the RR-set and the signatures; last.info holds how far the   *)
(* write has come and the store holds the buffer being filled.             *)
(***************************************************************************)
\* the room for the entry as entry_h_splice hands it over: the header zeroed
Reserved ==
    [time |-> 0, ttl |-> 0, rank |-> 0, is_packet |-> FALSE, has_optout |-> FALSE,
     data |-> [rdata |-> "unwritten", sigs |-> "unwritten"]]

WriteInputs ==
    {[rr |-> RR(NameAZ, "A", ttl, "a1"), sigs |-> sigs, rank |-> r, time |-> t] :
        ttl \in {3, 300}, sigs \in {NoSigs, ASig},
        r \in {KR_RANK_AUTH, KR_RANK_INSECURE + KR_RANK_AUTH}, t \in {100, 400}}

Writing == last.op = "write" /\ last.info.step # "done"

\* the entry being written, in the store
Written == store[last.info.key].ents[last.info.rr.type]

\* the store with the entry being written changed to e
WithWritten(e) ==
    cdb_write(store, last.info.key,
              SpliceVal(store, last.info.key, last.info.rr.type, e))

WriteStepTo(step, e) ==
    /\ store' = WithWritten(e)
    /\ last' = [last EXCEPT !.info.step = step]
    /\ UNCHANGED <<cache, ctx_state, qry, req, selected, pkt>>

\* entry_h_splice has returned 0 and the room for the entry
WriteReserve(i) ==
    /\ cache_isvalid(cache)
    /\ ~Writing
    /\ cache.stats.insert < MaxInsert
    /\ stash_rrset_precond(i.rr) > 0
    /\ LET w == stash_rrset(store, cache, i.rr, i.sigs, i.time, i.rank, StashEnv({}))
       IN /\ w.inserted = 1
          /\ store' = cdb_write(store, w.key, SpliceVal(store, w.key, i.rr.type, Reserved))
          /\ last' = [NoCall EXCEPT !.op = "write",
                         !.info = [step |-> "reserved", key |-> w.key, rr |-> i.rr,
                                   rr_sigs |-> i.sigs, rank |-> i.rank,
                                   timestamp |-> i.time, before |-> store,
                                   damaged |-> FALSE]]
    /\ UNCHANGED <<cache, ctx_state, qry, req, selected, pkt>>

\* eh->time = timestamp; eh->ttl = MAX(MIN(ttl, cache->ttl_max),
\* cache->ttl_min); eh->rank = rank: one store per step, in this order
WriteHeader ==
    /\ Writing
    /\ \/ /\ last.info.step = "reserved"
          /\ WriteStepTo("time", [Written EXCEPT !.time = last.info.timestamp])
       \/ /\ last.info.step = "time"
          /\ WriteStepTo("ttl", [Written EXCEPT
                                    !.ttl = StashTtl(cache, last.info.rr, last.info.rr_sigs)])
       \/ /\ last.info.step = "ttl"
          /\ WriteStepTo("rank", [Written EXCEPT !.rank = last.info.rank])

\* rdataset_dematerialize of the RR-set, then of the signatures; when
\* either fails ttl and rank are set to 0
WritePayload(fails) ==
    /\ Writing
    /\ last.info.step \in {"rank", "rrs"}
    /\ IF fails
       THEN /\ store' = WithWritten([Written EXCEPT !.ttl = 0, !.rank = 0])
            /\ last' = [last EXCEPT !.info.step = "payload", !.info.damaged = TRUE]
            /\ UNCHANGED <<cache, ctx_state, qry, req, selected, pkt>>
       ELSE IF last.info.step = "rank"
       THEN WriteStepTo("rrs", [Written EXCEPT !.data.rdata = last.info.rr.rdata])
       ELSE WriteStepTo("payload",
                        [Written EXCEPT
                            !.data.sigs = IF last.info.rr_sigs.null THEN "none"
                                          ELSE last.info.rr_sigs.rdata])

\* cache->stats.insert += 1, and stash_rrset returns
WriteDone ==
    /\ Writing /\ last.info.step = "payload"
    /\ cache' = [cache EXCEPT !.stats.insert = @ + 1]
    /\ last' = [last EXCEPT !.info.step = "done", !.writes = 1]
    /\ UNCHANGED <<store, ctx_state, qry, req, selected, pkt>>

NextWrite ==
    \/ KrCacheOpen({}, TRUE)
    \/ \E i \in WriteInputs : WriteReserve(i)
    \/ WriteHeader
    \/ \E fails \in BOOLEAN : WritePayload(fails)
    \/ WriteDone

SpecWrite == InitTtl /\ [][NextWrite]_vars

\* what a peek for the entry's name and type one second after the time of
\* the stash comes to on the store as it is
ReaderPeek ==
    cache_peek(KR_STATE_PRODUCE,
               Qry(last.info.rr.owner, last.info.rr.type, last.info.timestamp + 1),
               [BaseReq EXCEPT !.ta_covers = FALSE], cache, store, PktOrig,
               PeekEnv({}, NsecFind("none", "covered", 0), 0))

\* the write taken at once is the write taken statement by statement: the
\* same store, or after a failure the same header
WriteIsStash ==
    (last.op = "write" /\ last.info.step = "done") =>
        LET w == stash_rrset(last.info.before, cache, last.info.rr, last.info.rr_sigs,
                             last.info.timestamp, last.info.rank,
                             StashEnv(IF last.info.damaged THEN {"demat"} ELSE {}))
            e == w.store[last.info.key].ents[last.info.rr.type]
        IN /\ w.key = last.info.key
           /\ ~last.info.damaged => store = w.store
           /\ Written.time = e.time /\ Written.ttl = e.ttl /\ Written.rank = e.rank

\* C26: while stash_rrset fills the room it got in the backend, the ttl of
\* the header is zero until the whole payload is written, and the TTL is
\* stored as the last step; a reader that looks at the entry at any point
\* of the write before its end sees an entry that has run out.
C26_TtlStoredLast ==
    /\ (Writing /\ last.info.step # "payload")
          => /\ Written.ttl = 0
             /\ ReaderPeek.state # KR_STATE_DONE
    /\ (last.op = "write" /\ last.info.step = "done" /\ ~last.info.damaged)
          => Written.ttl = StashTtl(cache, last.info.rr, last.info.rr_sigs)

\* what stash_rrset does: time, ttl and rank are stored first, in this
\* order, the payload after them; from the second statement on the header
\* holds the TTL of the finished entry, and ttl and rank are set to 0 only
\* when the writing of the payload has failed
C26_HeaderStoredFirst ==
    /\ WriteIsStash
    /\ (last.op = "write" /\ last.info.step \in {"ttl", "rank", "rrs"})
          => /\ Written.ttl = StashTtl(cache, last.info.rr, last.info.rr_sigs)
             /\ Written.ttl >= cache.ttl_min
             /\ Written.data.sigs = "unwritten"
    /\ (last.op = "write" /\ last.info.step \in {"payload", "done"})
          => IF last.info.damaged
             THEN Written.ttl = 0 /\ Written.rank = 0
             ELSE /\ Written.ttl = StashTtl(cache, last.info.rr, last.info.rr_sigs)
                  /\ Written.data.rdata = last.info.rr.rdata

\* the header holds the TTL and the rank, nothing of the payload is
\* written, and a peek is answered from the entry
C26_HalfWrittenServed ==
    /\ Writing
    /\ last.info.step = "rank"
    /\ Written.ttl > 0
    /\ Written.data.rdata = "unwritten"
    /\ ReaderPeek.state = KR_STATE_DONE
    /\ ReaderPeek.pkt.answer[1].rdata = "unwritten"

(***************************************************************************)
(* The records that are not stashed (C27, C29): signatures whose labels    *)
(* field is below, at and above the label count of the owner; records of   *)
(* another class, of a metatype, of type RRSIG or NSEC3 and with a zero    *)
(* byte in the owner; requests and packets that cache_stash skips.         *)
(***************************************************************************)
RecordSigs == {RRSig(NameAZ, "A", 200, l, NameRoot) : l \in 1..3}

RecordA == RR(NameAZ, "A", 300, "a1")

\* records stash_rrset_precond turns away
RecordsUnfit ==
    {[RR(NameAZ, "A", 300, "x1") EXCEPT !.rclass = "CH"],
     RR(NameAZ, "ANY", 300, "x1"),
     RR(NameAZ, "OPT", 300, "x1"),
     RR(NameAZ, "NSEC3", 300, "x1"),
     [RRSig(NameAZ, "NS", 200, 2, NameRoot) EXCEPT !.rdata = "x1"],
     RR(NameZero, "A", 300, "x1")}

RecordInserts ==
    {[rr |-> RecordA, sigs |-> sigs] : sigs \in {NoSigs} \cup RecordSigs}
    \cup {[rr |-> RR(NameZ, "NS", 300, "ns1"), sigs |-> RRSig(NameZ, "NS", 200, 2, NameRoot)]}
    \cup {[rr |-> rr, sigs |-> NoSigs] : rr \in RecordsUnfit}

RecordRank == KR_RANK_INSECURE + KR_RANK_AUTH

RecordSelected ==
    {<<<<Selected(sig, RecordRank), Selected(RecordA, RecordRank)>>, <<>>, <<>>>> :
        sig \in RecordSigs}
    \cup {<<<<Selected(RecordA, RecordRank)>>,
            <<Selected(rr, RecordRank), Selected(RR(NameZ, "NS", 300, "ns1"), RecordRank)>>,
            <<>>>> : rr \in RecordsUnfit}

RecordRequests ==
    {Request(KR_STATE_CONSUME, q, BaseReq) :
        q \in {BaseQry, [BaseQry EXCEPT !.flags.CACHED = TRUE],
               [BaseQry EXCEPT !.sclass = "CH"]}}
    \cup {Request(KR_STATE_CONSUME, BaseQry, [BaseReq EXCEPT !.has_qry = FALSE])}

RecordQtypes == {"A", "RRSIG", "ANY", "OPT"}

RecordEnvs == {[StashEnv({}) EXCEPT !.pkt = p] : p \in StashedPkts \cup {StashEnv({}).pkt}}

NextRecords ==
    \/ KrCacheOpen({}, TRUE)
    \/ \E i \in RecordInserts :
         KrCacheInsertRR(i.rr, i.sigs, RecordRank, 100, StashEnv({}))
    \/ \E r \in RecordRequests, sel \in RecordSelected :
         NewRequest(r.state, r.q, r.rq, sel)
    \/ \E qtype \in RecordQtypes, tc \in BOOLEAN, env \in RecordEnvs :
         CacheStash(qtype, tc, env)

SpecRecords == InitStash /\ [][NextRecords]_vars

\* the labels field of the signatures is above the label count of the owner
LabelsExceed(rr, rr_sigs) ==
    ~rr_sigs.null /\ rr_sigs.labels > knot_dname_labels(rr.owner)

\* the signatures stash_rrarray_entry finds for the record
SigsOf(arr, rr) ==
    IF FindSigs(arr, Len(arr), rr, qry) = 0 THEN NoSigs
    ELSE arr[FindSigs(arr, Len(arr), rr, qry)].rr

\* the entries of the selected arrays that are RR-sets stash_rrset is
\* called on with signatures whose labels field exceeds the owner's
ExceedingAt(sel) ==
    {pi \in (1..3) \X (1..3) :
        /\ pi[2] <= Len(sel[pi[1]])
        /\ stash_rrset_precond(sel[pi[1]][pi[2]].rr) > 0
        /\ LabelsExceed(sel[pi[1]][pi[2]].rr, SigsOf(sel[pi[1]], sel[pi[1]][pi[2]].rr))}

OwnerKey(rr) == key_exact_type(kr_dname_lf(rr.owner, FALSE), rr.type)

\* the entry of the type of rr under the key, or none
EntryAt(st, key, type) == IF HasEntry(st, key, type) THEN st[key].ents[type] ELSE "none"

\* C27: when the labels field of the RRSIG is above the label count of the
\* owner (wild_labels < 0), stash_rrset rejects the RR-set: nothing is
\* written to the backend, insert is not incremented and the record is not
\* marked cached; the RR-set is not stored under its owner name as if
\* wild_labels were 0.
C27_ExceedingLabelsRejected ==
    [][/\ \A i \in RecordInserts :
            (/\ KrCacheInsertRR(i.rr, i.sigs, RecordRank, 100, StashEnv({}))
             /\ stash_rrset_precond(i.rr) > 0
             /\ LabelsExceed(i.rr, i.sigs))
            => /\ store' = store
               /\ cache'.stats.insert = cache.stats.insert
               /\ last'.writes = 0
               /\ last'.ret = kr_ok
       /\ \A qtype \in RecordQtypes, tc \in BOOLEAN, env \in RecordEnvs :
            CacheStash(qtype, tc, env)
            => \A pi \in ExceedingAt(selected) :
                  LET rr == selected[pi[1]][pi[2]].rr
                  IN /\ selected'[pi[1]][pi[2]].cached = selected[pi[1]][pi[2]].cached
                     /\ OwnerKey(rr) \notin last'.info.keys
                     /\ (/\ HasEntry(store', OwnerKey(rr), rr.type)
                         /\ EntryAt(store', OwnerKey(rr), rr.type).is_packet)
                           \/ EntryAt(store', OwnerKey(rr), rr.type)
                                = EntryAt(store, OwnerKey(rr), rr.type)
                     /\ (\A pj \in (1..3) \X (1..3) :
                            pj[2] <= Len(selected[pj[1]]) /\ pj \notin ExceedingAt(selected)
                            => stash_rrset_precond(selected[pj[1]][pj[2]].rr) <= 0)
                        => /\ cache'.stats.insert = cache.stats.insert
                           /\ last'.writes = 0
                           /\ store' = IF last'.info.pkt_stashed
                                       THEN stash_pkt(store, qry, qtype, env)
                                       ELSE store]_vars

\* a stash that was not skipped has tried an A RR-set whose signatures have
\* a labels field of 3, one more than the owner has labels: nothing is
\* stored and the record is not marked cached
C27_ExceedingNotStashed ==
    /\ last.op = "stash"
    /\ ~last.info.skipped
    /\ last.info.tried = 2
    /\ ExceedingAt(last.info.sel_in) = {<<1, 2>>}
    /\ last.info.sel_in[1][1].rr.labels = 3
    /\ ~selected[1][2].cached
    /\ last.writes = 0
    /\ ~HasEntry(store, OwnerKey(RecordA), "A")

(***************************************************************************)
(* The two layer functions over one name (C28, C30): RR-sets and CNAMEs of *)
(* every rank that is served, queries with DNSSEC_WANT and DNSSEC_INSECURE *)
(* set or not, requests that are skipped, steps of the peek and of the     *)
(* stash that fail, a backend with and without a sync function.            *)
(***************************************************************************)
LayerRanks == {KR_RANK_AUTH, KR_RANK_INSECURE + KR_RANK_AUTH, KR_RANK_SECURE + KR_RANK_AUTH}

LayerInserts ==
    {Insert(RR(NameAZ, "A", 300, "r1"), NoSigs, r) : r \in LayerRanks}
    \cup {Insert(RR(NameAZ, "CNAME", 300, "c1"), NoSigs, r) :
            r \in {KR_RANK_AUTH, KR_RANK_INSECURE + KR_RANK_AUTH}}

LayerQueries ==
    {[BaseQry EXCEPT !.flags.DNSSEC_WANT = w, !.flags.DNSSEC_INSECURE = i] :
        w \in BOOLEAN, i \in BOOLEAN}
    \cup {[BaseQry EXCEPT !.stype = "RRSIG"]}

LayerRequests ==
    {Request(KR_STATE_PRODUCE, q, BaseReq) : q \in LayerQueries}
    \cup {Request(KR_STATE_DONE, BaseQry, BaseReq)}

LayerSelected ==
    {NoSelected,
     <<<<Selected(ASig, KR_RANK_INSECURE + KR_RANK_AUTH),
         Selected(RR(NameAZ, "A", 300, "a1"), KR_RANK_INSECURE + KR_RANK_AUTH)>>,
       <<>>, <<>>>>}

LayerPeekEnvs ==
    {PeekEnv(F, NsecFind("none", "covered", 0), 0) :
        F \in OneOf({"read", "e2a", "ns_read"})}

LayerStashEnvs ==
    {[StashEnv(F) EXCEPT !.pkt = p] :
        F \in {{}, {"lf"}}, p \in StashedPkts \cup {StashEnv({}).pkt}}

NextLayer ==
    \/ \E has_sync \in BOOLEAN : KrCacheOpen({}, has_sync)
    \/ \E i \in LayerInserts :
         /\ Filling
         /\ KrCacheInsertRR(i.rr, i.sigs, i.rank, 100, StashEnv({}))
    \/ \E r \in LayerRequests, sel \in LayerSelected :
         NewRequest(r.state, r.q, r.rq, sel)
    \/ \E env \in LayerPeekEnvs : CachePeek(env)
    \/ \E qtype \in {"A", "RRSIG"}, tc \in BOOLEAN, env \in LayerStashEnvs :
         CacheStash(qtype, tc, env)

SpecLayer == InitPeek /\ [][NextLayer]_vars

\* the peek was answered by answer_simple_hit: from an RR-set stored under
\* the name and type asked for, or from a CNAME found on the way to the cut
SimpleHit ==
    /\ last.op = "peek"
    /\ last.info.path \in {"exact_hit", "cname"}
    /\ pkt.answer # <<>>
    /\ pkt.answer[1].src = "simple"

\* C28: after every answer built from an exact RR-set hit or a CNAME hit
\* (answer_simple_hit succeeding) the query has CACHED and NO_MINIMIZE set,
\* DNSSEC_INSECURE is set exactly when the rank of the entry tests INSECURE,
\* DNSSEC_INSECURE implies that DNSSEC_WANT is cleared, and when the rank
\* is not INSECURE, DNSSEC_WANT is left as it was.
C28_SimpleHitFlags ==
    SimpleHit =>
        LET insecure == kr_rank_test(pkt.answer[1].rank, KR_RANK_INSECURE)
        IN /\ last.state = KR_STATE_DONE
           /\ qry.flags.CACHED
           /\ qry.flags.NO_MINIMIZE
           /\ qry.flags.DNSSEC_INSECURE = insecure
           /\ qry.flags.DNSSEC_INSECURE => ~qry.flags.DNSSEC_WANT
           /\ ~insecure => qry.flags.DNSSEC_WANT = last.info.qry_in.flags.DNSSEC_WANT

\* a CNAME of rank INSECURE answers a query that wanted DNSSEC: the query
\* is marked insecure and no longer wants it
C28_InsecureCnameHit ==
    /\ SimpleHit
    /\ last.info.path = "cname"
    /\ kr_rank_test(pkt.answer[1].rank, KR_RANK_INSECURE)
    /\ last.info.qry_in.flags.DNSSEC_WANT
    /\ ~last.info.qry_in.flags.DNSSEC_INSECURE
    /\ qry.flags.DNSSEC_INSECURE
    /\ ~qry.flags.DNSSEC_WANT

\* an exact hit of rank SECURE on a query marked insecure before: the mark
\* is taken back and DNSSEC_WANT stays as it was
C28_SecureExactHit ==
    /\ SimpleHit
    /\ last.info.path = "exact_hit"
    /\ kr_rank_test(pkt.answer[1].rank, KR_RANK_SECURE)
    /\ last.info.qry_in.flags.DNSSEC_INSECURE
    /\ ~qry.flags.DNSSEC_INSECURE
    /\ qry.flags.DNSSEC_WANT = last.info.qry_in.flags.DNSSEC_WANT

\* whether cache_stash returns before it has looked at a record
StashSkips(has_qry, q, qtype, tc) ==
    \/ ~has_qry
    \/ q.flags.CACHED
    \/ knot_rrtype_is_metatype(qtype) \/ qtype = "RRSIG"
    \/ q.sclass # "IN"
    \/ tc

\* no entry is of a type that is not stashed and none holds the data of a
\* record of RecordsUnfit
NoUnfitStored(st) ==
    \A k \in DOMAIN st :
        st[k].kind = "entries" =>
            \A t \in DOMAIN st[k].ents :
                /\ t \notin MetaTypes \cup {"RRSIG", "NSEC3"}
                /\ st[k].ents[t].data.rdata \notin {rr.rdata : rr \in RecordsUnfit}

\* the places of the selected arrays that hold a record of RecordsUnfit
UnfitAt(sel) ==
    {pi \in (1..3) \X (1..3) :
        pi[2] <= Len(sel[pi[1]]) /\ sel[pi[1]][pi[2]].rr \in RecordsUnfit}

\* C29: cache_stash writes nothing to the cache when the query is missing,
\* when the query was answered from the cache (CACHED), when the question
\* type of the packet is a metatype or RRSIG, when the class of the query
\* is not IN and when the packet has the TC bit set; within a stash no
\* record of a class other than IN, of a metatype, of type RRSIG or NSEC3,
\* or with a zero byte in a label of its owner is written.
C29_SkippedAndUnfitNotWritten ==
    [][\A qtype \in RecordQtypes, tc \in BOOLEAN, env \in RecordEnvs :
          CacheStash(qtype, tc, env)
          => /\ StashSkips(req.has_qry, qry, qtype, tc)
                  => /\ store' = store
                     /\ cache' = cache
                     /\ selected' = selected
                     /\ last'.writes = 0
             /\ NoUnfitStored(store')
             /\ \A pi \in UnfitAt(selected) : ~selected'[pi[1]][pi[2]].cached]_vars

\* a stash that was not skipped has written the A RR-set of the answer and
\* the NS RR-set of the authority section and has passed over the NSEC3
\* record between them
C29_Nsec3PassedOver ==
    /\ last.op = "stash"
    /\ ~last.info.skipped
    /\ Len(last.info.sel_in[2]) = 2
    /\ last.info.sel_in[2][1].rr.type = "NSEC3"
    /\ last.info.tried = 3
    /\ last.writes = 2
    /\ ~selected[2][1].cached
    /\ selected[2][2].cached
    /\ NoUnfitStored(store)

\* a stash skipped for its packet (question type or TC bit) while the
\* query is present, not CACHED and of class IN: records that would be
\* written are selected, and nothing is written
C29_PacketSkipped ==
    /\ last.op = "stash"
    /\ last.info.skipped
    /\ qry = BaseQry
    /\ req.has_qry
    /\ Len(last.info.sel_in[2]) = 2
    /\ last.writes = 0
    /\ DOMAIN store = {VersionKey}

\* the backend syncs of the call that has just been made into last', when
\* the call was not skipped: all of them are made by the one kr_cache_sync
\* that follows the reads and the writes
SyncsOfCall(n) ==
    /\ last'.syncs = n
    /\ last'.clears = 0
    /\ last'.closes = 0

\* C30 as stated: every cache_peek and every cache_stash that is not
\* skipped calls the sync of the backend exactly once, on every path; a
\* skipped one calls none.
C30_BackendSyncOnce ==
    [][/\ \A env \in LayerPeekEnvs :
            CachePeek(env)
            => IF PeekSkips(ctx_state, qry)
               THEN last'.syncs = 0 /\ last'.reads = 0
               ELSE SyncsOfCall(1)
       /\ \A qtype \in {"A", "RRSIG"}, tc \in BOOLEAN, env \in LayerStashEnvs :
            CacheStash(qtype, tc, env)
            => IF StashSkips(req.has_qry, qry, qtype, tc)
               THEN last'.syncs = 0 /\ last'.writes = 0
               ELSE SyncsOfCall(1)]_vars

\* C30, amended: every cache_peek and every cache_stash that is not skipped
\* ends by calling kr_cache_sync exactly once, after all of its reads and
\* writes and on every path, error paths included; kr_cache_sync calls the
\* sync of the backend once when the backend has a sync function and calls
\* nothing when it has none.  A skipped peek or stash calls no sync, reads
\* nothing and writes nothing.
C30_SyncOnceIfProvided ==
    [][/\ \A env \in LayerPeekEnvs :
            CachePeek(env)
            => IF PeekSkips(ctx_state, qry)
               THEN /\ last'.syncs = 0 /\ last'.reads = 0
                    /\ last'.info.path = "skipped"
               ELSE /\ SyncsOfCall(IF cache.has_sync THEN 1 ELSE 0)
                    /\ last'.info.path # "skipped"
                    /\ LET real == cache_peek_real(ctx_state, qry, req, store, pkt, env)
                       IN /\ real.syncs = 0
                          /\ last'.reads = real.reads
                          /\ last'.state = real.state
       /\ \A qtype \in {"A", "RRSIG"}, tc \in BOOLEAN, env \in LayerStashEnvs :
            CacheStash(qtype, tc, env)
            => IF StashSkips(req.has_qry, qry, qtype, tc)
               THEN /\ last'.syncs = 0 /\ last'.writes = 0
                    /\ last'.info.skipped
                    /\ store' = store
               ELSE /\ SyncsOfCall(IF cache.has_sync THEN 1 ELSE 0)
                    /\ ~last'.info.skipped
                    /\ last'.state = ctx_state
                    /\ LET S == StashLoop(KNOT_ANSWER, Len(selected[KNOT_ANSWER]),
                                          [store |-> store, sel |-> selected,
                                           inserted |-> 0, keys |-> {}, tried |-> 0,
                                           ret |-> 0],
                                          qry, cache, env)
                       IN /\ last'.writes = S.inserted
                          /\ last'.ret = S.ret]_vars

\* a stash in which the writing of a record has failed, on a backend with a
\* sync function: the sync is called once all the same
C30_SyncAfterFailedStash ==
    /\ last.op = "stash"
    /\ ~last.info.skipped
    /\ last.ret < 0
    /\ last.info.tried > 0
    /\ cache.has_sync
    /\ last.syncs = 1

\* a peek whose read of the backend has failed: the sync is called once
C30_SyncAfterFailedPeek ==
    /\ last.op = "peek"
    /\ last.info.path = "exact_error"
    /\ last.reads = 1
    /\ cache.has_sync
    /\ last.syncs = 1

\* a peek that has read a backend that has no sync function
C30_NoSyncFunction ==
    /\ last.op = "peek"
    /\ last.info.path # "skipped"
    /\ last.reads > 0
    /\ ~cache.has_sync
    /\ last.syncs = 0

(***************************************************************************)
(* The entries stash_rrset writes and entry_h_consistent (C31).            *)
(***************************************************************************)
\* C31: every entry written by stash_rrset, whatever rank the caller passes
\* in, satisfies entry_h_consistent; no RR-set entry of rank BOGUS and none
\* with has_optout set is ever stored.
C31_WrittenConsistent ==
    \A k \in DOMAIN store :
        store[k].kind = "entries" =>
            \A t \in DOMAIN store[k].ents :
                LET eh == store[k].ents[t]
                IN /\ entry_h_consistent(eh)
                   /\ ~eh.is_packet
                         => ~kr_rank_test(eh.rank, KR_RANK_BOGUS) /\ ~eh.has_optout

\* kr_cache_insert_rr was called with the rank BOGUS|AUTH and the RR-set is
\* stored with that rank, as an entry entry_h_consistent turns away
C31_BogusRRsetStored ==
    /\ last.op = "insert_rr"
    /\ last.writes = 1
    /\ kr_rank_test(last.info.rank, KR_RANK_BOGUS)
    /\ \E s \in Stashed :
          /\ EntryOf(s).rank = last.info.rank
          /\ ~EntryOf(s).is_packet
          /\ ~entry_h_consistent(EntryOf(s))

(***************************************************************************)
(* The packet of a peek that is not answered (C32).                        *)
(***************************************************************************)
\* the peek returned the state it was called with, and that is not DONE
PeekUnanswered ==
    /\ last.op = "peek"
    /\ last.state = last.info.state_in
    /\ last.state # KR_STATE_DONE

\* C32: whenever cache_peek returns the caller's state instead of DONE (a
\* miss, an unfit entry or a failing step), the packet passed in is not
\* modified: question, rcode and sections are as before the call.
C32_UnansweredPacketKept ==
    PeekUnanswered => pkt = last.info.pkt_in

\* what the code keeps: an unanswered peek leaves the packet alone unless a
\* step has failed after pkt_renew (in answer_simple_hit or in the writing
\* of a synthesized answer); then the packet is the renewed one, with the
\* question of the query, no records, and at most the rcode set
C32_KeptUnlessRenewed ==
    PeekUnanswered =>
        \/ pkt = last.info.pkt_in
        \/ /\ last.info.path \in {"exact_error", "cname_error", "write_error"}
           /\ \E rcode \in {"NOERROR", "NXDOMAIN"} :
                 pkt = [pkt_renew(last.info.pkt_in, last.info.qry_in.sname,
                                  last.info.qry_in.stype) EXCEPT !.rcode = rcode]

\* entry2answer or pkt_append has failed in answer_simple_hit after the
\* packet was renewed: the peek returns the caller's state PRODUCE and the
\* packet, untouched before the call, holds the question of the query
C32_RenewedThenFailed ==
    /\ PeekUnanswered
    /\ last.info.path = "exact_error"
    /\ last.state = KR_STATE_PRODUCE
    /\ last.info.pkt_in = PktOrig
    /\ pkt # PktOrig
    /\ pkt.qname = last.info.qry_in.sname
    /\ pkt.answer = <<>>

\* a miss: nothing is stored for the name, the packet is as it was
C32_MissKeepsPacket ==
    /\ PeekUnanswered
    /\ last.info.path = "miss"
    /\ last.reads > 0
    /\ pkt = last.info.pkt_in

(***************************************************************************)
(* CACHE_TRIED over the peeks on one query (C33).                          *)
(***************************************************************************)
\* C33: every cache_peek that passes the skip checks sets CACHE_TRIED on
\* the query before any lookup, and nothing clears it while the query is
\* the current one; so of the peeks on one query without a stale callback
\* at most one reads the backend, and a later peek reads the backend again
\* only if a stale callback is registered.
C33_TriedOnce ==
    [][/\ (last'.op = "peek" /\ ~PeekSkips(ctx_state, qry))
             => /\ qry'.flags.CACHE_TRIED
                /\ last'.info.path # "skipped"
       /\ (qry.flags.CACHE_TRIED /\ last'.op # "request") => qry'.flags.CACHE_TRIED
       /\ (last'.op = "peek" /\ qry.flags.CACHE_TRIED /\ last'.reads > 0)
             => qry.stale_cb # "none"
       /\ (last'.op = "peek" /\ qry.flags.CACHE_TRIED /\ qry.stale_cb = "none")
             => /\ last'.reads = 0
                /\ last'.info.path = "skipped"
                /\ pkt' = pkt /\ ctx_state' = ctx_state]_vars

\* a second peek on a query that a first peek has tried and not answered,
\* no stale callback: it is skipped and reads nothing
C33_SecondPeekSkipped ==
    /\ last.op = "peek"
    /\ last.info.path = "skipped"
    /\ last.info.state_in = KR_STATE_PRODUCE
    /\ last.info.qry_in.flags.CACHE_TRIED
    /\ ~last.info.qry_in.flags.NO_CACHE
    /\ last.info.qry_in.stale_cb = "none"
    /\ last.reads = 0

\* with a stale callback registered the peek on a tried query reads again
C33_StalePeekReadsAgain ==
    /\ last.op = "peek"
    /\ last.info.qry_in.flags.CACHE_TRIED
    /\ last.info.qry_in.stale_cb # "none"
    /\ last.reads > 0
    /\ qry.flags.CACHE_TRIED

(***************************************************************************)
(* cache_stash over selected arrays of three sections (C34, C35): records  *)
(* whose stashing fails between records that are written, entries of       *)
(* another query and entries marked cached before, a stored entry that is  *)
(* kept, and cache_stash called again on the same request.                 *)
(***************************************************************************)
ErrRank == KR_RANK_SECURE + KR_RANK_AUTH

\* records whose stashing returns an error: a class other than IN, a
\* validated NSEC with no signatures selected
ErrRecords ==
    {[RR(NameZ, "SOA", 300, "x1") EXCEPT !.rclass = "CH"], NsecZ}

\* no record: entry->rr is NULL
ErrNoRecord == [RR(NameZ, "SOA", 300, "x1") EXCEPT !.null = TRUE]

ErrNS == RR(NameZ, "NS", 300, "ns1")
ErrGlue == RR(NameRoot, "A", 300, "g1")

\* answer, authority and additional section: the middle record is reached
\* after the answer and after the last record of the authority section.
\* The entry without a record is the last of its array: the search for
\* signatures of an entry after it would read its record (api.c:846).
ErrSelected ==
    {<<<<Selected(RecordA, ErrRank)>>,
       <<Selected(ErrNS, ErrRank), Selected(x, ErrRank), Selected(ErrGlue, ErrRank)>>,
       <<Selected(ErrGlue, ErrRank)>>>> :
        x \in ErrRecords \cup {RR(NameZ, "SOA", 300, "soa1")}}
    \cup {<<<<Selected(RecordA, ErrRank)>>,
            <<Selected(ErrNS, ErrRank), Selected(ErrNoRecord, ErrRank)>>,
            <<Selected(ErrGlue, ErrRank)>>>>}

\* entries of another query, entries marked before, signatures
OnceSelected ==
    {<<<<Selected(ASig, ErrRank), Selected(RecordA, ErrRank)>>, <<>>, <<>>>>,
     <<<<[Selected(RecordA, ErrRank) EXCEPT !.qry_uid = 2]>>,
       <<Selected(ErrNS, ErrRank)>>, <<>>>>,
     <<<<Selected(RecordA, ErrRank)>>,
       <<[Selected(ErrNS, ErrRank) EXCEPT !.cached = TRUE]>>, <<>>>>}

ErrEnvs ==
    {[StashEnv(F) EXCEPT !.skip = k, !.pkt = p] :
        F \in {{}, {"lf"}}, k \in BOOLEAN, p \in StashedPkts}

NextErrs ==
    \/ KrCacheOpen({}, TRUE)
    \/ KrCacheInsertRR(RecordA, NoSigs, KR_RANK_AUTH, 100, StashEnv({}))
    \/ \E sel \in ErrSelected \cup OnceSelected :
         NewRequest(KR_STATE_CONSUME, BaseQry, BaseReq, sel)
    \/ \E env \in ErrEnvs : CacheStash("A", FALSE, env)

SpecErrs == InitStash /\ [][NextErrs]_vars

\* the places of the selected arrays in the order cache_stash visits them:
\* section after section, each from its last entry to its first
RECURSIVE StashOrder(_, _, _)
StashOrder(sel, psec, i) ==
    IF psec > KNOT_ADDITIONAL THEN <<>>
    ELSE IF i < 1
    THEN StashOrder(sel, psec + 1,
                    IF psec < KNOT_ADDITIONAL THEN Len(sel[psec + 1]) ELSE 0)
    ELSE <<<<psec, i>>>> \o StashOrder(sel, psec, i - 1)

\* whether the stashing of the entry returns an error
StashErrs(arr, e, q, env) ==
    /\ e.qry_uid = q.uid
    /\ ~e.cached
    /\ \/ e.rr.null
       \/ e.rr.rclass # "IN"
       \/ /\ stash_rrset_precond(e.rr) > 0
          /\ stash_rrset_wild_labels(e.rr, SigsOf(arr, e.rr)) >= 0
          /\ IF e.rr.type = "NSEC"
             THEN kr_rank_test(e.rank, KR_RANK_SECURE) /\ SigsOf(arr, e.rr).null
             ELSE "lf" \in env.F

\* the index in the order of the first entry whose stashing errs, 0 if none
FirstErr(sel, q, env) ==
    LET ord == StashOrder(sel, KNOT_ANSWER, Len(sel[KNOT_ANSWER]))
        errs == {n \in 1..Len(ord) :
                    StashErrs(sel[ord[n][1]], sel[ord[n][1]][ord[n][2]], q, env)}
    IN IF errs = {} THEN 0 ELSE CHOOSE n \in errs : \A m \in errs : n <= m

\* the selected arrays with the entries from the n-th of the order on taken
\* out of the stash (RRSIGs stay, for the records before them to find)
UpTo(sel, n) ==
    LET ord == StashOrder(sel, KNOT_ANSWER, Len(sel[KNOT_ANSWER]))
        late(psec, i) == \E m \in n..Len(ord) : ord[m] = <<psec, i>>
    IN [psec \in 1..3 |->
          [i \in 1..Len(sel[psec]) |->
              IF late(psec, i) /\ (sel[psec][i].rr.null \/ sel[psec][i].rr.type # "RRSIG")
              THEN [sel[psec][i] EXCEPT !.cached = TRUE]
              ELSE sel[psec][i]]]

\* C34: if the stashing of one selected record returns an error (no
\* record, a class other than IN, a SECURE NSEC without RRSIGs, a failure
\* to encode the key), cache_stash stops at that record: no further record
\* of any section is stashed and the packet is not stashed in that call;
\* the sync is called all the same and the caller's state is returned.
C34_StopsAtFailedRecord ==
    [][\A env \in ErrEnvs :
          (/\ CacheStash("A", FALSE, env)
           /\ ~StashSkips(req.has_qry, qry, "A", FALSE)
           /\ FirstErr(selected, qry, env) > 0)
          => LET n == FirstErr(selected, qry, env)
                 ord == StashOrder(selected, KNOT_ANSWER, Len(selected[KNOT_ANSWER]))
                 before == StashLoop(KNOT_ANSWER, Len(selected[KNOT_ANSWER]),
                                     [store |-> store, sel |-> UpTo(selected, n),
                                      inserted |-> 0, keys |-> {}, tried |-> 0,
                                      ret |-> 0],
                                     qry, cache, env)
             IN /\ last'.ret < 0
                /\ store' = before.store
                /\ last'.writes = before.inserted
                /\ cache'.stats.insert = cache.stats.insert + before.inserted
                /\ \A m \in n..Len(ord) :
                      selected'[ord[m][1]][ord[m][2]] = selected[ord[m][1]][ord[m][2]]
                /\ ~last'.info.pkt_stashed
                /\ last'.syncs = 1
                /\ ctx_state' = ctx_state]_vars

\* a stash has written the answer, has failed at the last record but one
\* of the authority section after writing the last, and has left the first
\* record of that section, the additional section and the packet unwritten
C34_StoppedInAuthority ==
    /\ last.op = "stash"
    /\ last.ret < 0
    /\ last.info.sel_in \in ErrSelected
    /\ last.writes = 2
    /\ last.info.tried = 3
    /\ ~last.info.pkt_stashed
    /\ selected[1][1].cached
    /\ selected[2][3].cached
    /\ ~selected[2][1].cached
    /\ ~selected[3][1].cached
    /\ ~HasEntry(store, OwnerKey(ErrNS), "NS")
    /\ last.syncs = 1
    /\ last.state = last.info.state_in

\* the places of the selected arrays
Places(sel) == {pi \in (1..3) \X (1..3) : pi[2] <= Len(sel[pi[1]])}

\* the places marked cached by the step
NewlyMarked ==
    {pi \in Places(selected) :
        selected'[pi[1]][pi[2]].cached /\ ~selected[pi[1]][pi[2]].cached}

IsSig(e) == ~e.rr.null /\ e.rr.type = "RRSIG"

\* the key of the entry the RR-set at the place is written to
PlaceKey(sel, pi) ==
    LET e == sel[pi[1]][pi[2]]
        sigs == SigsOf(sel[pi[1]], e.rr)
    IN IF e.rr.type = "NSEC" THEN key_NSEC1(Len(Lf(sigs.signer)), Lf(e.rr.owner))
       ELSE OwnerKey(e.rr)

\* C35: cache_stash considers only the selected entries of the current
\* query (qry_uid) that are not marked cached; an entry is marked cached,
\* and the RRSIG entry matched to it with it, exactly when its write
\* stored a positive number of bytes; so over the cache_stash calls on one
\* request each selected RR-set is written at most once, and an entry
\* whose stash was skipped stays unmarked.
C35_StashedAtMostOnce ==
    [][/\ last'.op # "request"
          => /\ Places(selected') = Places(selected)
             /\ \A pi \in Places(selected) :
                   selected[pi[1]][pi[2]].cached => selected'[pi[1]][pi[2]] = selected[pi[1]][pi[2]]
       /\ last'.op = "stash"
          => /\ \A pi \in Places(selected) :
                   selected[pi[1]][pi[2]].qry_uid # qry.uid
                      => selected'[pi[1]][pi[2]] = selected[pi[1]][pi[2]]
             /\ \A pi \in NewlyMarked :
                   LET e == selected[pi[1]][pi[2]]
                   IN IF IsSig(e)
                      THEN \E pj \in NewlyMarked :
                              /\ pj[1] = pi[1]
                              /\ ~IsSig(selected[pj[1]][pj[2]])
                              /\ SigsOf(selected[pj[1]], selected[pj[1]][pj[2]].rr) = e.rr
                      ELSE /\ PlaceKey(selected, pi) \in last'.info.keys
                           /\ HasEntry(store', PlaceKey(selected, pi), e.rr.type)
             /\ last'.writes = Cardinality({pi \in NewlyMarked : ~IsSig(selected[pi[1]][pi[2]])})
             /\ cache'.stats.insert = cache.stats.insert + last'.writes
             /\ last'.writes = 0 => selected' = selected /\ last'.info.keys = {}]_vars

\* cache_stash is called again on a request whose A RR-set and RRSIG were
\* written and marked by an earlier call: nothing is tried, nothing written
C35_SecondStashWritesNothing ==
    /\ last.op = "stash"
    /\ ~last.info.skipped
    /\ Len(last.info.sel_in[1]) = 2
    /\ IsSig(last.info.sel_in[1][1])
    /\ last.info.sel_in[1][1].cached
    /\ last.info.sel_in[1][2].cached
    /\ last.info.tried = 0
    /\ last.writes = 0
    /\ selected = last.info.sel_in

\* the entry stored for the name is kept (the splice returns -EEXIST): the
\* stash of the A RR-set is skipped and the entry stays unmarked
C35_KeptEntryUnmarked ==
    /\ last.op = "stash"
    /\ ~last.info.skipped
    /\ last.ret = 0
    /\ Len(last.info.sel_in[1]) = 1
    /\ ~last.info.sel_in[1][1].cached
    /\ last.info.sel_in[1][1].qry_uid = qry.uid
    /\ last.info.tried = 1
    /\ last.writes = 0
    /\ ~selected[1][1].cached

====
